---- MODULE Spec2Model ----
(***************************************************************************)
(* Model of the simple-ahci driver: AhciDriver::try_new (controller and    *)
(* port bring-up, IDENTIFY), AhciPort::exec_cmd (one command on slot 0)    *)
(* and AhciDriver::read / write (rw_common, the chunking pipeline).        *)
(*                                                                         *)
(* 64-bit quantities (LBAs) are tuples of four 16-bit limbs, least         *)
(* significant first, because the checker's integers are 32 bits wide.     *)
(* u64 addition is modulo 2^64 (wrapping arithmetic).                      *)
(***************************************************************************)
EXTENDS Integers, Naturals, Sequences, FiniteSets, TLC

(***************************************************************************)
(* Bounds of the model.                                                    *)
(***************************************************************************)
\* highest value of CAP.NP the controller reports (ports 0..MaxNP exist)
MaxNP == 1
\* the ghost counters of CI writes and flushes saturate at this value
MaxCount == 2
\* last reading of the clock while a call of wait_until_timeout is followed
MaxClock == 4

(***************************************************************************)
(* Program constants.                                                      *)
(***************************************************************************)
AHCI_MAX_SG == 56
AHCI_MAX_BYTES_PER_SG == 4 * 1024 * 1024
AHCI_MAX_BYTES_PER_CMD == AHCI_MAX_SG * AHCI_MAX_BYTES_PER_SG
\* AhciDriver.block_size, set once by try_new
BlockSize == 512
\* size_of::<sata_fis_h2d>() / 4
CFL == 5
\* the timeouts handed to wait_until_timeout, in milliseconds
StopTimeout == 500
WaitTimeout == 1000
AeDelay == 1

\* constants of the ata module
SATA_FIS_TYPE_REGISTER_H2D == 39
ATA_CMD_ID_ATA == 236
ATA_CMD_READ == 32
ATA_CMD_READ_EXT == 36
ATA_CMD_WRITE == 48
ATA_CMD_WRITE_EXT == 52
ATA_ID_WORDS == 256

(***************************************************************************)
(* 64-bit arithmetic on limbs.                                             *)
(***************************************************************************)
W16 == 256 * 256
MiB == 1024 * 1024

U64Zero == <<0, 0, 0, 0>>

\* x + n modulo 2^64, for 0 <= n < 2^30  (start += count as u64)
AddU64(x, n) ==
    LET s1 == x[1] + n
        s2 == x[2] + (s1 \div W16)
        s3 == x[3] + (s2 \div W16)
        s4 == x[4] + (s3 \div W16)
    IN  <<s1 % W16, s2 % W16, s3 % W16, s4 % W16>>

\* (x >> sh) as u8, for sh a multiple of 8
ShrU8(x, sh) ==
    LET w == x[(sh \div 16) + 1]
    IN  IF sh % 16 = 0 THEN w % 256 ELSE (w \div 256) % 256

\* usize::div_ceil
DivCeil(a, b) == (a + b - 1) \div b

Min(a, b) == IF a < b THEN a ELSE b

\* saturating increment of a ghost counter
Bump(c) == IF c < MaxCount THEN c + 1 ELSE c

(***************************************************************************)
(* The Host-to-Device Register FIS (types.rs, sata_fis_h2d).               *)
(***************************************************************************)
FisDefault ==
    [fis_type |-> 0, pm_port_c |-> 0, command |-> 0, features |-> 0,
     lba_low |-> 0, lba_mid |-> 0, lba_high |-> 0, device |-> 0,
     lba_low_exp |-> 0, lba_mid_exp |-> 0, lba_high_exp |-> 0,
     features_exp |-> 0, sector_count |-> 0, sector_count_exp |-> 0,
     res1 |-> 0, control |-> 0]

\* the IDENTIFY DEVICE FIS built by AhciDriver::try_new
IdentifyFis ==
    [FisDefault EXCEPT !.fis_type = SATA_FIS_TYPE_REGISTER_H2D,
                       !.pm_port_c = 128,
                       !.command = ATA_CMD_ID_ATA]

\* a cap one below the protocol maximum
MaxSectors_oneLess(lba48) == IF lba48 THEN 65535 ELSE 255

\* let max_sectors = if self.is_lba48 { 65536 } else { 256 };
MaxSectors(lba48) == IF lba48 THEN 65536 ELSE 256

\* a chunk that is not capped at max_sectors
ChunkCount_noCap(remaining, lba48) == DivCeil(remaining, BlockSize)

\* the chunk rw_common cuts off the front of the remaining bytes:
\* count sectors, current_bytes bytes
ChunkCount(remaining, lba48) ==
    Min(DivCeil(remaining, BlockSize), MaxSectors(lba48))

\* a chunk of whole sectors even when fewer bytes remain
ChunkBytes_noMin(remaining, lba48) == ChunkCount(remaining, lba48) * BlockSize

ChunkBytes(remaining, lba48) ==
    Min(ChunkCount(remaining, lba48) * BlockSize, remaining)

\* a FIS whose LBA48 branch forgets sector_count_exp
BuildFis_noExp(start, count, lba48, w) ==
    LET base == [FisDefault EXCEPT !.fis_type = SATA_FIS_TYPE_REGISTER_H2D,
                                   !.pm_port_c = 128]
    IN  IF lba48
        THEN [base EXCEPT
                !.command = IF w THEN ATA_CMD_WRITE_EXT ELSE ATA_CMD_READ_EXT,
                !.lba_low = ShrU8(start, 0),
                !.lba_mid = ShrU8(start, 8),
                !.lba_high = ShrU8(start, 16),
                !.lba_low_exp = ShrU8(start, 24),
                !.lba_mid_exp = ShrU8(start, 32),
                !.lba_high_exp = ShrU8(start, 40),
                !.device = 64,
                !.sector_count = count % 256]
        ELSE [base EXCEPT
                !.command = IF w THEN ATA_CMD_WRITE ELSE ATA_CMD_READ,
                !.lba_low = ShrU8(start, 0),
                !.lba_mid = ShrU8(start, 8),
                !.lba_high = ShrU8(start, 16),
                !.device = 64 + (ShrU8(start, 24) % 16),
                !.sector_count = count % 256]

\* the FIS rw_common builds for one chunk
BuildFis(start, count, lba48, w) ==
    LET base == [FisDefault EXCEPT !.fis_type = SATA_FIS_TYPE_REGISTER_H2D,
                                   !.pm_port_c = 128]
    IN  IF lba48
        THEN [base EXCEPT
                !.command = IF w THEN ATA_CMD_WRITE_EXT ELSE ATA_CMD_READ_EXT,
                !.lba_low = ShrU8(start, 0),
                !.lba_mid = ShrU8(start, 8),
                !.lba_high = ShrU8(start, 16),
                !.lba_low_exp = ShrU8(start, 24),
                !.lba_mid_exp = ShrU8(start, 32),
                !.lba_high_exp = ShrU8(start, 40),
                !.device = 64,
                !.sector_count = count % 256,
                !.sector_count_exp = (count \div 256) % 256]
        ELSE [base EXCEPT
                !.command = IF w THEN ATA_CMD_WRITE ELSE ATA_CMD_READ,
                !.lba_low = ShrU8(start, 0),
                !.lba_mid = ShrU8(start, 8),
                !.lba_high = ShrU8(start, 16),
                !.device = 64 + (ShrU8(start, 24) % 16),
                !.sector_count = count % 256]

(***************************************************************************)
(* The scatter-gather list exec_cmd builds for a buffer of len bytes:      *)
(* entry k covers AHCI_MAX_BYTES_PER_SG bytes from offset k * 4 MiB, the   *)
(* last one the rest.                                                      *)
(***************************************************************************)
\* a count that is one too many when len is a multiple of the segment size
SgCount_floor(len) == IF len > 0 THEN (len \div AHCI_MAX_BYTES_PER_SG) + 1 ELSE 0

SgCount(len) == IF len > 0 THEN ((len - 1) \div AHCI_MAX_BYTES_PER_SG) + 1 ELSE 0

\* options with the write flag one bit too high
HdrOpts_w7(sg_cnt, w) == CFL + (sg_cnt * 65536) + (IF w THEN 128 ELSE 0)

\* let opts = (cfl as u32) | ((sg_cnt as u32) << 16) | ((is_write as u32) << 6);
HdrOpts(sg_cnt, w) == CFL + (sg_cnt * 65536) + (IF w THEN 64 ELSE 0)

(***************************************************************************)
(* State.                                                                  *)
(***************************************************************************)
VARIABLES
    pc,             \* position of the driver's single thread of control
    elapsed,        \* current_ms() - start of the wait in progress
    \* the controller as the hardware built it
    hwNP,           \* CAP.NP as it reads back
    hwSCLO,         \* CAP.SCLO as it reads back
    hwAE,           \* value of GHC.AE before the driver touched the controller
    hwPI,           \* ports whose bit is set in PI as the driver reads it back
    physBase,       \* H::virt_to_phys: physical address of virtual address 0
    \* the memory-backed fake controller and the caller's buffers
    disk,           \* sectors written so far: device LBA -> contents
    rbuf,           \* contents of the buffer of the read call, per sector
    rtPhase,        \* how many calls of the round trip were made
    rtLba, rtN,     \* LBA and length in sectors of the round trip
    \* registers
    ghc,            \* GHC: [HR, AE, IE]
    pcmd,           \* per port, PxCMD: [ICC, FRE, CLO, POD, SUD, ST]
    \* locals of AhciDriver::try_new
    idx,            \* loop variable i of the port probe
    id83,           \* word 83 of the IDENTIFY buffer id
    idSect,         \* words 60..61 and 100..103 of the IDENTIFY buffer id
    max_lba,        \* AhciDriver.max_lba
    result,         \* what try_new returned: "pending", "None" or "Some"
    \* history (ghost) variables of bring-up
    hostAcc,        \* accesses to the generic host control registers
    probeAcc,       \* per port: registers AhciPort::try_new accessed
    portRes,        \* per port: "untried", "some" or "none"
    tried,          \* port indices in the order AhciPort::try_new was called
    sawDet3,        \* per port: a read of SSTS.DET returned 3
    sawReady,       \* per port: after start, TFD read BSY, DRQ and ERR clear
    warned,         \* waits of the AhciPort::try_new in hand that only warned
    wt,             \* a call of wait_until_timeout, statement by statement
    lastIssue,      \* the command in slot 0 at the last store to PxCI
    \* AhciDriver
    bound,          \* index of the port held in AhciDriver.port, or NoPort
    is_lba48,       \* AhciDriver.is_lba48
    \* locals of rw_common
    start, remaining_bytes, buf_offset, rw_write,
    \* arguments of exec_cmd: the FIS, the slice buf[ecOff .. ecOff+ecLen],
    \* the direction, and the caller to return to
    ecFis, ecOff, ecLen, ecWrite, ecRet,
    \* DMA structures of each port
    cmdTbl,         \* Command Table: [hdr |-> FIS, sgs |-> PRD entries]
    cmdHdr,         \* Command List slot 0
    pbase,          \* per port, PxCLB, PxCLBU, PxFB and PxFBU
    \* port registers
    ci,             \* PxCI bit 0
    \* history (ghost) variables
    callLba, callLen,       \* arguments of the read/write call in progress
    curLba, curCount,       \* start LBA and sector count of the chunk in hand
    nCmds,                  \* exec_cmd calls made by the call in progress
    sumBytes, sumSectors,   \* bytes and sectors of the chunks before this one
    ciWrites,               \* per port: stores to PxCI (saturating)
    callCiW,                \* the call in progress stored to PxCI
    callFail,               \* an exec_cmd of the call in progress timed out or refused
    refused,                \* the size check refused a buffer in this call
    flushes,                \* flush_dcache calls (saturating)
    ecOutcome,              \* how the last exec_cmd ended
    hdrSlots,               \* Command List slots ever written, on any port
    ciVals,                 \* values ever stored to a PxCI
    trace,                  \* what the exec_cmd call in hand did, in order
    lastRet                 \* value returned by the last read/write

ctlVars   == <<pc, elapsed>>
fakeVars  == <<disk, rbuf, rtPhase, rtLba, rtN>>
hwFixed   == <<hwNP, hwSCLO, hwAE, hwPI, fakeVars, physBase, warned, wt>>
idVars    == <<idSect, max_lba>>
hwConst   == <<hwFixed, idVars>>
bringVars == <<hwConst, ghc, pcmd, idx, result, hostAcc, probeAcc,
               portRes, tried, sawDet3, sawReady>>
drvVars   == <<bound, is_lba48>>
rwVars    == <<start, remaining_bytes, buf_offset, rw_write>>
ecVars    == <<ecFis, ecOff, ecLen, ecWrite, ecRet>>
dmaVars   == <<cmdTbl, cmdHdr, pbase>>
callVars  == <<callLba, callLen, curLba, curCount, nCmds, sumBytes, sumSectors,
               callCiW, callFail, refused, lastRet>>
ecHist    == <<hdrSlots, ciVals, trace>>
ghostVars == <<ciWrites, flushes, ecOutcome, ecHist>>

vars == <<ctlVars, bringVars, drvVars, rwVars, ecVars, dmaVars, ci, callVars,
          ghostVars, id83, lastIssue>>

NoPort == -1
Ports == 0..MaxNP

\* PxCMD after a controller reset
CmdReset ==
    [ICC |-> "Idle", FRE |-> FALSE, CLO |-> FALSE, POD |-> FALSE,
     SUD |-> FALSE, ST |-> FALSE]

\* the start store of AhciPort::try_new
CmdStart ==
    [ICC |-> "Active", FRE |-> TRUE, CLO |-> FALSE, POD |-> TRUE,
     SUD |-> TRUE, ST |-> TRUE]

(***************************************************************************)
(* wait_until_timeout(cond, timeout): one iteration of its loop.  The      *)
(* condition is evaluated first; only if it is false is the clock read,    *)
(* and the wait gives up when current_ms() - start > timeout.  The clock   *)
(* never runs backwards; the readings tried are "no time passed", "exactly *)
(* timeout" and "one past timeout".  After a wait that gave up, elapsed    *)
(* keeps minus the reading that ended it until the next wait is over.      *)
(***************************************************************************)
\* no call of wait_until_timeout is being followed statement by statement
WtIdle ==
    [pc |-> "none", timeout |-> 0, now |-> 0, start |-> 0, evals |-> 0,
     seen |-> FALSE, read |-> -1, ret |-> "none"]

ClockReads(timeout) ==
    {e \in {IF elapsed < 0 THEN 0 ELSE elapsed, timeout, timeout + 1} :
        e >= elapsed}

Expired(e, timeout) == e > timeout

Poll(cond, timeout, okPc, failPc) ==
    IF cond
    THEN pc' = okPc /\ elapsed' = 0
    ELSE \E e \in ClockReads(timeout) :
            IF Expired(e, timeout)
            THEN pc' = failPc /\ elapsed' = -e
            ELSE pc' = pc /\ elapsed' = e

(***************************************************************************)
(* AhciPort::exec_cmd on the bound port.                                   *)
(***************************************************************************)
\* where exec_cmd returns to
RetPc ==
    IF ecRet = "rw" THEN "rw_adv"
    ELSE IF ecRet = "direct" THEN "idle" ELSE "id_done"

\* an exec_cmd that starts to build without looking at CI
EcSlotWait_blind ==
    /\ pc = "ec_slot"
    /\ Poll(TRUE, WaitTimeout, "ec_size", "ec_slot_timeout")
    /\ UNCHANGED <<bringVars, drvVars, rwVars, ecVars, dmaVars, ci, callVars,
                   ghostVars>>
    /\ UNCHANGED <<id83, lastIssue>>

\* Wait for slot 0 to be free
EcSlotWait ==
    /\ pc = "ec_slot"
    /\ Poll(ci[bound] = 0, WaitTimeout, "ec_size", "ec_slot_timeout")
    /\ UNCHANGED <<bringVars, drvVars, rwVars, ecVars, dmaVars, ci, callVars,
                   ghostVars>>
    /\ UNCHANGED <<id83, lastIssue>>

\* a slot wait whose timeout is logged and ignored
EcSlotTimeout_proceed ==
    /\ pc = "ec_slot_timeout"
    /\ pc' = "ec_size"
    /\ ecOutcome' = "slot_timeout"
    /\ callFail' = TRUE
    /\ UNCHANGED <<elapsed, bringVars, drvVars, rwVars, ecVars, dmaVars, ci,
                   callLba, callLen, curLba, curCount, nCmds, sumBytes,
                   sumSectors, callCiW, refused, lastRet, ciWrites, flushes,
                   ecHist>>
    /\ UNCHANGED <<id83, lastIssue>>

\* error!("Slot 0 busy timeout"); return;
EcSlotTimeout ==
    /\ pc = "ec_slot_timeout"
    /\ pc' = RetPc
    /\ ecOutcome' = "slot_timeout"
    /\ callFail' = TRUE
    /\ UNCHANGED <<elapsed, bringVars, drvVars, rwVars, ecVars, dmaVars, ci,
                   callLba, callLen, curLba, curCount, nCmds, sumBytes,
                   sumSectors, callCiW, refused, lastRet, ciWrites, flushes,
                   ecHist>>
    /\ UNCHANGED <<id83, lastIssue>>

\* let slot: u32 = 0
Slot == 0

\* a null buf: no address at all
NullBuf == -1

\* H::virt_to_phys(v).  Virtual addresses are byte offsets: the caller's
\* buffer starts at 0 and the Command Table of port p lies at TblVa(p).
V2P(v) == AddU64(physBase, v)
TblVa(p) == (768 * MiB) + (128 * p)
\* the Command List (1024-aligned) and the Received-FIS area (256-aligned)
ClVa(p) == (512 * MiB) + (1024 * p)
FisVa(p) == (640 * MiB) + (256 * p)

\* translations tried: one above 4 GiB, and the identity
PhysBases == << <<0, 4660, 1, 0>>, U64Zero >>

\* x as u32 and (x >> 32) as u32, two limbs each
Lo32(x) == <<x[1], x[2]>>
Hi32(x) == <<x[3], x[4]>>

\* CLB/CLBU and FB/FBU as AhciPort::try_new programs them, and after reset
PortBases(p) ==
    [CLB |-> Lo32(V2P(ClVa(p))), CLBU |-> Hi32(V2P(ClVa(p))),
     FB |-> Lo32(V2P(FisVa(p))), FBU |-> Hi32(V2P(FisVa(p)))]
NoBases == [CLB |-> <<0, 0>>, CLBU |-> <<0, 0>>, FB |-> <<0, 0>>, FBU |-> <<0, 0>>]

\* entries that address the start of the caller's buffer, not of the slice
SgEntry_noBase(base, len, i) ==
    LET offset == i * AHCI_MAX_BYTES_PER_SG
        l == Min(len - offset, AHCI_MAX_BYTES_PER_SG)
        buf_addr == V2P(offset)
    IN  [addr_lo |-> Lo32(buf_addr), addr_hi |-> Hi32(buf_addr),
         flags_size |-> (l - 1) % 4194304, reserved |-> 0]

\* the i-th entry for the slice at base: sg.write(ahci_sg { .. })
SgEntry(base, len, i) ==
    LET offset == i * AHCI_MAX_BYTES_PER_SG
        l == Min(len - offset, AHCI_MAX_BYTES_PER_SG)
        buf_addr == V2P(base + offset)
    IN  [addr_lo |-> Lo32(buf_addr), addr_hi |-> Hi32(buf_addr),
         flags_size |-> (l - 1) % 4194304, reserved |-> 0]

\* sg_cnt: none for a null or empty buf
EcSgCount(base, len) == IF base = NullBuf THEN 0 ELSE SgCount(len)

\* entries whose flags_size is the byte count itself
NewSgs_byteCount(old, base, len) ==
    LET n == EcSgCount(base, len)
        m == IF Len(old) > n THEN Len(old) ELSE n
    IN  [k \in 1..m |->
            IF k <= n
            THEN [SgEntry(base, len, k - 1) EXCEPT !.flags_size = @ + 1]
            ELSE old[k]]

\* the PRD entries after exec_cmd wrote the first sg_cnt of them
NewSgs(old, base, len) ==
    LET n == EcSgCount(base, len)
        m == IF Len(old) > n THEN Len(old) ELSE n
    IN  [k \in 1..m |-> IF k <= n THEN SgEntry(base, len, k - 1) ELSE old[k]]

\* a size check that already refuses 224 MiB
EcBuild_ge ==
    /\ pc = "ec_size"
    /\ IF ecLen >= AHCI_MAX_BYTES_PER_CMD
       THEN /\ pc' = RetPc
            /\ ecOutcome' = "too_large"
            /\ callFail' = TRUE
            /\ refused' = TRUE
            /\ UNCHANGED <<dmaVars, hdrSlots, trace>>
       ELSE IF EcSgCount(ecOff, ecLen) > AHCI_MAX_SG
       THEN /\ pc' = RetPc
            /\ ecOutcome' = "too_many_sg"
            /\ callFail' = TRUE
            /\ refused' = TRUE
            /\ cmdTbl' = [cmdTbl EXCEPT ![bound].hdr = ecFis]
            /\ trace' = trace \o <<"fis">>
            /\ UNCHANGED <<cmdHdr, hdrSlots, pbase>>
       ELSE /\ pc' = "ec_flush"
            /\ cmdTbl' = [cmdTbl EXCEPT
                            ![bound] = [hdr |-> ecFis,
                                        sgs |-> NewSgs(cmdTbl[bound].sgs, ecOff, ecLen)]]
            /\ cmdHdr' = [cmdHdr EXCEPT
                            ![bound] =
                                [opts |-> HdrOpts(EcSgCount(ecOff, ecLen), ecWrite),
                                 status |-> 0,
                                 tbl_addr_lo |-> Lo32(V2P(TblVa(bound))),
                                 tbl_addr_hi |-> Hi32(V2P(TblVa(bound))),
                                 reserved |-> 0]]
            /\ hdrSlots' = hdrSlots \cup {Slot}
            /\ UNCHANGED pbase
            /\ trace' = trace \o (IF EcSgCount(ecOff, ecLen) > 0
                                    THEN <<"fis", "prd", "hdr">>
                                    ELSE <<"fis", "hdr">>)
            /\ UNCHANGED <<ecOutcome, callFail, refused>>
    /\ UNCHANGED <<elapsed, bringVars, drvVars, rwVars, ecVars, ci, callLba,
                   callLen, curLba, curCount, nCmds, sumBytes, sumSectors,
                   callCiW, lastRet, ciWrites, flushes, ciVals>>
    /\ UNCHANGED <<id83, lastIssue>>

\* size check, then the FIS, the PRD entries and the Command Header
EcBuild ==
    /\ pc = "ec_size"
    /\ IF ecLen > AHCI_MAX_BYTES_PER_CMD
       THEN /\ pc' = RetPc
            /\ ecOutcome' = "too_large"
            /\ callFail' = TRUE
            /\ refused' = TRUE
            /\ UNCHANGED <<dmaVars, hdrSlots, trace>>
       ELSE IF EcSgCount(ecOff, ecLen) > AHCI_MAX_SG
       THEN /\ pc' = RetPc
            /\ ecOutcome' = "too_many_sg"
            /\ callFail' = TRUE
            /\ refused' = TRUE
            /\ cmdTbl' = [cmdTbl EXCEPT ![bound].hdr = ecFis]
            /\ trace' = trace \o <<"fis">>
            /\ UNCHANGED <<cmdHdr, hdrSlots, pbase>>
       ELSE /\ pc' = "ec_flush"
            /\ cmdTbl' = [cmdTbl EXCEPT
                            ![bound] = [hdr |-> ecFis,
                                        sgs |-> NewSgs(cmdTbl[bound].sgs, ecOff, ecLen)]]
            /\ cmdHdr' = [cmdHdr EXCEPT
                            ![bound] =
                                [opts |-> HdrOpts(EcSgCount(ecOff, ecLen), ecWrite),
                                 status |-> 0,
                                 tbl_addr_lo |-> Lo32(V2P(TblVa(bound))),
                                 tbl_addr_hi |-> Hi32(V2P(TblVa(bound))),
                                 reserved |-> 0]]
            /\ hdrSlots' = hdrSlots \cup {Slot}
            /\ UNCHANGED pbase
            /\ trace' = trace \o (IF EcSgCount(ecOff, ecLen) > 0
                                    THEN <<"fis", "prd", "hdr">>
                                    ELSE <<"fis", "hdr">>)
            /\ UNCHANGED <<ecOutcome, callFail, refused>>
    /\ UNCHANGED <<elapsed, bringVars, drvVars, rwVars, ecVars, ci, callLba,
                   callLen, curLba, curCount, nCmds, sumBytes, sumSectors,
                   callCiW, lastRet, ciWrites, flushes, ciVals>>
    /\ UNCHANGED <<id83, lastIssue>>

\* an exec_cmd that issues the command without the flush before it
EcFlush_none ==
    /\ pc = "ec_flush"
    /\ pc' = "ec_issue"
    /\ UNCHANGED <<flushes, trace>>
    /\ UNCHANGED <<elapsed, bringVars, drvVars, rwVars, ecVars, dmaVars, ci,
                   callVars, ciWrites, ecOutcome, hdrSlots, ciVals>>
    /\ UNCHANGED <<id83, lastIssue>>

\* H::flush_dcache() before the command is issued
EcFlush ==
    /\ pc = "ec_flush"
    /\ pc' = "ec_issue"
    /\ flushes' = Bump(flushes)
    /\ trace' = Append(trace, "flush")
    /\ UNCHANGED <<elapsed, bringVars, drvVars, rwVars, ecVars, dmaVars, ci,
                   callVars, ciWrites, ecOutcome, hdrSlots, ciVals>>
    /\ UNCHANGED <<id83, lastIssue>>

\* an exec_cmd that issues its command in slot 1
EcIssue_slot1 ==
    /\ pc = "ec_issue"
    /\ pc' = "ec_done"
    /\ ci' = [ci EXCEPT ![bound] = 1]
    /\ ciVals' = ciVals \cup {2 ^ (Slot + 1)}
    /\ trace' = Append(trace, "ci")
    /\ lastIssue' = [port |-> bound, hdr |-> cmdTbl[bound].hdr,
                     opts |-> cmdHdr[bound].opts,
                     sgs |-> SubSeq(cmdTbl[bound].sgs, 1,
                                    cmdHdr[bound].opts \div 65536)]
    /\ ciWrites' = [ciWrites EXCEPT ![bound] = Bump(@)]
    /\ callCiW' = TRUE
    /\ UNCHANGED <<elapsed, bringVars, drvVars, rwVars, ecVars, dmaVars, callLba,
                   callLen, curLba, curCount, nCmds, sumBytes, sumSectors,
                   callFail, refused, lastRet, flushes, ecOutcome, hdrSlots>>
    /\ UNCHANGED id83

\* self.port.CI().write(1 << slot)
EcIssue ==
    /\ pc = "ec_issue"
    /\ pc' = "ec_done"
    /\ ci' = [ci EXCEPT ![bound] = 1]
    /\ ciVals' = ciVals \cup {2 ^ Slot}
    /\ trace' = Append(trace, "ci")
    /\ lastIssue' = [port |-> bound, hdr |-> cmdTbl[bound].hdr,
                     opts |-> cmdHdr[bound].opts,
                     sgs |-> SubSeq(cmdTbl[bound].sgs, 1,
                                    cmdHdr[bound].opts \div 65536)]
    /\ ciWrites' = [ciWrites EXCEPT ![bound] = Bump(@)]
    /\ callCiW' = TRUE
    /\ UNCHANGED <<elapsed, bringVars, drvVars, rwVars, ecVars, dmaVars, callLba,
                   callLen, curLba, curCount, nCmds, sumBytes, sumSectors,
                   callFail, refused, lastRet, flushes, ecOutcome, hdrSlots>>
    /\ UNCHANGED id83

\* a completion wait made with wait_until: no clock, no timeout
EcDoneWait_untimed ==
    /\ pc = "ec_done"
    /\ IF ci[bound] = 0
       THEN pc' = "ec_completed" /\ elapsed' = 0
       ELSE pc' = pc /\ elapsed' = elapsed
    /\ trace' = IF trace[Len(trace)] = "poll" THEN trace
                ELSE Append(trace, "poll")
    /\ UNCHANGED <<bringVars, drvVars, rwVars, ecVars, dmaVars, ci, callVars,
                   ciWrites, flushes, ecOutcome, hdrSlots, ciVals>>
    /\ UNCHANGED <<id83, lastIssue>>

\* Wait for completion
EcDoneWait ==
    /\ pc = "ec_done"
    /\ Poll(ci[bound] = 0, WaitTimeout, "ec_completed", "ec_cmd_timeout")
    /\ trace' = IF trace[Len(trace)] = "poll" THEN trace
                ELSE Append(trace, "poll")
    /\ UNCHANGED <<bringVars, drvVars, rwVars, ecVars, dmaVars, ci, callVars,
                   ciWrites, flushes, ecOutcome, hdrSlots, ciVals>>
    /\ UNCHANGED <<id83, lastIssue>>

\* an exec_cmd that issues the command again when it timed out
EcFinish_retry ==
    /\ pc \in {"ec_completed", "ec_cmd_timeout"}
    /\ pc' = IF pc = "ec_completed" THEN RetPc ELSE "ec_issue"
    /\ flushes' = Bump(flushes)
    /\ ecOutcome' = IF pc = "ec_completed" THEN "done" ELSE "cmd_timeout"
    /\ callFail' = (callFail \/ pc = "ec_cmd_timeout")
    /\ trace' = Append(trace, "flush")
    /\ UNCHANGED <<elapsed, bringVars, drvVars, rwVars, ecVars, dmaVars, ci,
                   callLba, callLen, curLba, curCount, nCmds, sumBytes,
                   sumSectors, callCiW, refused, lastRet, ciWrites, hdrSlots,
                   ciVals>>
    /\ UNCHANGED <<id83, lastIssue>>

\* the trailing H::flush_dcache() and the return, after completion or after
\* the completion timeout was logged
EcFinish ==
    /\ pc \in {"ec_completed", "ec_cmd_timeout"}
    /\ pc' = RetPc
    /\ flushes' = Bump(flushes)
    /\ ecOutcome' = IF pc = "ec_completed" THEN "done" ELSE "cmd_timeout"
    /\ callFail' = (callFail \/ pc = "ec_cmd_timeout")
    /\ trace' = Append(trace, "flush")
    /\ UNCHANGED <<elapsed, bringVars, drvVars, rwVars, ecVars, dmaVars, ci,
                   callLba, callLen, curLba, curCount, nCmds, sumBytes,
                   sumSectors, callCiW, refused, lastRet, ciWrites, hdrSlots,
                   ciVals>>
    /\ UNCHANGED <<id83, lastIssue>>

(***************************************************************************)
(* AhciDriver::read / write and rw_common.                                 *)
(***************************************************************************)
\* read(block_id, buf) / write(block_id, buf) is called: entry of rw_common
\* a read/write that turns down a buffer that is not a whole number of sectors
RwEnter_reject(block_id, len, w) ==
    /\ pc = "idle"
    /\ pc' = IF len % BlockSize = 0 THEN "rw_loop" ELSE "idle"
    /\ start' = block_id
    /\ remaining_bytes' = len
    /\ buf_offset' = 0
    /\ rw_write' = w
    /\ callLba' = block_id
    /\ callLen' = len
    /\ curLba' = block_id
    /\ curCount' = 0
    /\ nCmds' = 0
    /\ sumBytes' = 0
    /\ sumSectors' = 0
    /\ callCiW' = FALSE
    /\ callFail' = FALSE
    /\ refused' = FALSE
    /\ lastRet' = IF len % BlockSize = 0 THEN "pending" ELSE "false"
    /\ UNCHANGED <<elapsed, drvVars, ecVars, dmaVars, ci, ghostVars, id83,
                   lastIssue>>

RwEnter(block_id, len, w) ==
    /\ pc = "idle"
    /\ pc' = "rw_loop"
    /\ start' = block_id
    /\ remaining_bytes' = len
    /\ buf_offset' = 0
    /\ rw_write' = w
    /\ callLba' = block_id
    /\ callLen' = len
    /\ curLba' = block_id
    /\ curCount' = 0
    /\ nCmds' = 0
    /\ sumBytes' = 0
    /\ sumSectors' = 0
    /\ callCiW' = FALSE
    /\ callFail' = FALSE
    /\ refused' = FALSE
    /\ lastRet' = "pending"
    /\ UNCHANGED <<elapsed, drvVars, ecVars, dmaVars, ci, ghostVars, id83,
                   lastIssue>>

RwCall(block_id, len, w) ==
    /\ RwEnter(block_id, len, w)
    /\ UNCHANGED bringVars

\* head of the while loop: cut the next chunk, build its FIS and hand it to
\* exec_cmd, or leave the loop and return true
RwLoop ==
    /\ pc = "rw_loop"
    /\ IF remaining_bytes > 0
       THEN LET count == ChunkCount(remaining_bytes, is_lba48)
                current_bytes == ChunkBytes(remaining_bytes, is_lba48)
            IN  /\ pc' = "ec_slot"
                /\ ecFis' = BuildFis(start, count, is_lba48, rw_write)
                /\ ecOff' = buf_offset
                /\ ecLen' = current_bytes
                /\ ecWrite' = rw_write
                /\ ecRet' = "rw"
                /\ curLba' = start
                /\ curCount' = count
                /\ nCmds' = nCmds + 1
                /\ ecOutcome' = "running"
                /\ trace' = <<>>
                /\ UNCHANGED lastRet
       ELSE /\ pc' = "idle"
            /\ lastRet' = "true"
            /\ UNCHANGED <<ecVars, curLba, curCount, nCmds, ecOutcome, trace>>
    /\ elapsed' = 0
    /\ UNCHANGED <<bringVars, drvVars, rwVars, dmaVars, ci, callLba, callLen,
                   sumBytes, sumSectors, callCiW, callFail, refused, ciWrites,
                   flushes, hdrSlots, ciVals>>
    /\ UNCHANGED <<id83, lastIssue>>

\* a loop that gives up and returns false when the command failed
RwAdvance_stopOnError ==
    /\ pc = "rw_adv"
    /\ IF ecOutcome = "done"
       THEN /\ pc' = "rw_loop"
            /\ start' = AddU64(start, ChunkCount(remaining_bytes, is_lba48))
            /\ remaining_bytes' =
                    remaining_bytes - ChunkBytes(remaining_bytes, is_lba48)
            /\ buf_offset' = buf_offset + ChunkBytes(remaining_bytes, is_lba48)
            /\ sumBytes' = sumBytes + ecLen
            /\ sumSectors' = sumSectors + curCount
            /\ UNCHANGED lastRet
       ELSE /\ pc' = "idle"
            /\ lastRet' = "false"
            /\ UNCHANGED <<start, remaining_bytes, buf_offset, sumBytes,
                           sumSectors>>
    /\ UNCHANGED <<elapsed, bringVars, drvVars, rw_write, ecVars, dmaVars, ci,
                   callLba, callLen, curLba, curCount, nCmds, callCiW,
                   callFail, refused, ghostVars>>
    /\ UNCHANGED <<id83, lastIssue>>

\* after exec_cmd returned: start += count; remaining_bytes -= current_bytes;
\* buf_offset += current_bytes
RwAdvance ==
    /\ pc = "rw_adv"
    /\ pc' = "rw_loop"
    /\ start' = AddU64(start, ChunkCount(remaining_bytes, is_lba48))
    /\ remaining_bytes' = remaining_bytes - ChunkBytes(remaining_bytes, is_lba48)
    /\ buf_offset' = buf_offset + ChunkBytes(remaining_bytes, is_lba48)
    /\ sumBytes' = sumBytes + ecLen
    /\ sumSectors' = sumSectors + curCount
    /\ UNCHANGED <<elapsed, bringVars, drvVars, rw_write, ecVars, dmaVars, ci,
                   callLba, callLen, curLba, curCount, nCmds, callCiW,
                   callFail, refused, lastRet, ghostVars>>
    /\ UNCHANGED <<id83, lastIssue>>

(***************************************************************************)
(* The device: it completes an outstanding command by clearing CI bit 0,   *)
(* at any time or never.  Completing IDENTIFY while try_new waits for it   *)
(* leaves the device's identify data in the buffer id, of which the model  *)
(* keeps word 83 (bit 10: LBA48 supported).                                *)
(***************************************************************************)
Id83Values == {0, 1024, 29696}

\* ata_id_has_lba48(&id): word 83, bit 10
ata_id_has_lba48(w83) == (w83 \div 1024) % 2 = 1

\* ata_id_n_sectors(&id): the 64-bit field at words 100..103 if the device
\* has LBA48, else the 32-bit field at words 60..61
ata_id_n_sectors(w83, sect) ==
    IF ata_id_has_lba48(w83) THEN sect.w100
    ELSE <<sect.w60[1], sect.w60[2], 0, 0>>

\* the buffer id as let mut id = [0u16; ATA_ID_WORDS] leaves it, and the
\* sector counts of the device that reports word 83 as w83: 0x100000 sectors
\* on an LBA28 device, 2^32 sectors on an LBA48 device
ZeroSectors == [w60 |-> <<0, 0>>, w100 |-> U64Zero]
IdSectors(w83) ==
    IF (w83 \div 1024) % 2 = 1
    THEN [w60 |-> <<65535, 4095>>, w100 |-> <<0, 0, 1, 0>>]
    ELSE [w60 |-> <<0, 16>>, w100 |-> U64Zero]

DevComplete ==
    /\ \E p \in Ports :
        /\ ci[p] = 1
        /\ ci' = [ci EXCEPT ![p] = 0]
    /\ IF ecRet = "identify"
          /\ pc \in {"ec_done", "ec_completed", "ec_cmd_timeout", "id_done"}
       THEN id83' \in Id83Values /\ idSect' = IdSectors(id83')
       ELSE id83' = id83 /\ idSect' = idSect
    /\ UNCHANGED <<ctlVars, hwFixed, max_lba, ghc, pcmd, idx, result, hostAcc,
                   probeAcc, portRes, tried, sawDet3, sawReady, drvVars,
                   rwVars, ecVars, dmaVars, callVars, ghostVars, lastIssue>>

ExecCmd ==
    \/ EcSlotWait
    \/ EcSlotTimeout
    \/ EcBuild
    \/ EcFlush
    \/ EcIssue
    \/ EcDoneWait
    \/ EcFinish

(***************************************************************************)
(* The read/write pipeline on a constructed driver.                        *)
(***************************************************************************)

\* start LBAs tried: zero, the S2 example, the LBA28 and LBA48 limits and
\* their neighbours, values with bits above 48, and the top of the range
LbaSet ==
    { U64Zero,
      <<42, 0, 0, 0>>,
      <<65535, 4095, 0, 0>>,
      <<65280, 65535, 65535, 0>>,
      <<52719, 35243, 17767, 291>>,
      <<65535, 65535, 65535, 65535>> }

\* buffer lengths around the sector size and around the LBA28 cap of 256
\* sectors per command
SmallLens == {0, 1, 512, 513, 1024, 131072, 131073, 131584, 262656}

\* buffer lengths around the LBA48 cap of 65536 sectors (32 MiB) per command,
\* the S3, S4 and S6 scenarios among them
BigLens == {10 * MiB, 32 * MiB, 32 * MiB + 512, 64 * MiB + 512, 224 * MiB + 1}

\* the large buffers are tried on LBA48 devices only: on LBA28 they make
\* thousands of chunks
RwInputs(lba48) ==
    (LbaSet \X SmallLens \X BOOLEAN)
        \cup (IF lba48 THEN {U64Zero} \X BigLens \X BOOLEAN ELSE {})

\* one call per behaviour
RwCallAny ==
    /\ lastRet = "none"
    /\ \E in \in RwInputs(is_lba48) : RwCall(in[1], in[2], in[3])

EmptyTbl == [hdr |-> FisDefault, sgs |-> <<>>]
EmptyHdr ==
    [opts |-> 0, status |-> 0, tbl_addr_lo |-> <<0, 0>>,
     tbl_addr_hi |-> <<0, 0>>, reserved |-> 0]

\* the DMA structures as the IDENTIFY command of try_new leaves them
IdentifyTbl == [hdr |-> IdentifyFis, sgs |-> NewSgs(<<>>, 0, 2 * ATA_ID_WORDS)]
IdentifyHdr(p) ==
    [opts |-> HdrOpts(1, FALSE), status |-> 0,
     tbl_addr_lo |-> Lo32(V2P(TblVa(p))), tbl_addr_hi |-> Hi32(V2P(TblVa(p))),
     reserved |-> 0]

\* a driver whose try_new returned Some; its IDENTIFY may still be outstanding
DriverReady ==
    /\ pc = "idle"
    /\ elapsed = 0
    /\ hwNP = MaxNP
    /\ hwSCLO = FALSE
    /\ hwAE = FALSE
    /\ hwPI = 0..MaxNP
    /\ warned = {}
    /\ hdrSlots = {Slot}
    /\ ciVals = {2 ^ Slot}
    /\ trace = <<"fis", "prd", "hdr", "flush", "ci", "poll", "flush">>
    /\ disk = <<>>
    /\ rbuf = <<>>
    /\ rtPhase = 0
    /\ rtLba = U64Zero
    /\ rtN = 0
    /\ ghc = [HR |-> FALSE, AE |-> TRUE, IE |-> TRUE]
    /\ idx = hwNP + 1
    /\ result = "Some"
    /\ hostAcc = {}
    /\ probeAcc = [p \in Ports |-> {}]
    /\ tried = <<>>
    /\ sawDet3 = [p \in Ports |-> FALSE]
    /\ sawReady = [p \in Ports |-> FALSE]
    /\ bound \in 0..hwNP
    /\ is_lba48 \in BOOLEAN
    /\ id83 = (IF is_lba48 THEN 1024 ELSE 0)
    /\ idSect = IdSectors(id83)
    /\ max_lba = ata_id_n_sectors(id83, idSect)
    /\ portRes = [p \in Ports |-> IF p = bound THEN "some" ELSE "none"]
    /\ pcmd = [p \in Ports |-> IF p = bound THEN CmdStart ELSE CmdReset]
    /\ lastIssue = [port |-> bound, hdr |-> IdentifyFis,
                    opts |-> HdrOpts(1, FALSE),
                    sgs |-> NewSgs(<<>>, 0, 2 * ATA_ID_WORDS)]
    /\ start = U64Zero
    /\ remaining_bytes = 0
    /\ buf_offset = 0
    /\ rw_write = FALSE
    /\ ecFis = IdentifyFis
    /\ ecOff = 0
    /\ ecLen = 2 * ATA_ID_WORDS
    /\ ecWrite = FALSE
    /\ ecRet = "identify"
    /\ cmdTbl = [p \in Ports |-> IF p = bound THEN IdentifyTbl ELSE EmptyTbl]
    /\ cmdHdr = [p \in Ports |-> IF p = bound THEN IdentifyHdr(p) ELSE EmptyHdr]
    /\ pbase = [p \in Ports |-> IF p = bound THEN PortBases(p) ELSE NoBases]
    /\ \E c \in {0, 1} : ci = [p \in Ports |-> IF p = bound THEN c ELSE 0]
    /\ callLba = U64Zero
    /\ callLen = 0
    /\ curLba = U64Zero
    /\ curCount = 0
    /\ nCmds = 0
    /\ sumBytes = 0
    /\ sumSectors = 0
    /\ ciWrites = [p \in Ports |-> IF p = bound THEN 1 ELSE 0]
    /\ callCiW = FALSE
    /\ callFail = FALSE
    /\ refused = FALSE
    /\ flushes = MaxCount
    /\ ecOutcome = "none"
    /\ lastRet = "none"

InitRW == physBase = PhysBases[1] /\ wt = WtIdle /\ DriverReady

NextRW ==
    \/ RwCallAny
    \/ RwLoop
    \/ RwAdvance
    \/ EcSlotWait
    \/ EcSlotTimeout
    \/ EcBuild
    \/ EcFlush
    \/ EcIssue
    \/ EcDoneWait
    \/ EcFinish
    \/ DevComplete

SpecRW == InitRW /\ [][NextRW]_vars

(***************************************************************************)
(* exec_cmd on its own: a port that came up is handed commands with        *)
(* buffers of any length, null ones included.                              *)
(***************************************************************************)
\* exec_cmd(cfis, buf, is_write) is called
EcCall(fis, off, len, w) ==
    /\ pc = "idle"
    /\ nCmds < MaxCount
    /\ pc' = "ec_slot"
    /\ elapsed' = 0
    /\ ecFis' = fis
    /\ ecOff' = off
    /\ ecLen' = len
    /\ ecWrite' = w
    /\ ecRet' = "direct"
    /\ ecOutcome' = "running"
    /\ trace' = <<>>
    /\ nCmds' = nCmds + 1
    /\ UNCHANGED <<bringVars, drvVars, rwVars, dmaVars, ci, callLba, callLen,
                   curLba, curCount, sumBytes, sumSectors, callCiW, callFail,
                   refused, lastRet, ciWrites, flushes, hdrSlots, ciVals, id83,
                   lastIssue>>

\* buffers tried: empty, one byte, around one segment, the S5 example,
\* around the 224 MiB limit and far beyond it; a slice that does not start
\* at the buffer's first byte; null pointers
EcLens == {0, 1, 4 * MiB, (4 * MiB) + 1, 10 * MiB, 224 * MiB, (224 * MiB) + 1,
           1024 * MiB}

EcInputs ==
    {[off |-> 0, len |-> l, w |-> FALSE] : l \in EcLens}
    \cup {[off |-> 0, len |-> l, w |-> TRUE] : l \in {1, 10 * MiB}}
    \cup {[off |-> 1536, len |-> l, w |-> TRUE] : l \in {(4 * MiB) + 1, 224 * MiB}}
    \cup {[off |-> NullBuf, len |-> l, w |-> FALSE] : l \in {0, 512}}

EcCallAny ==
    \E in \in EcInputs :
        EcCall(IF in.w THEN BuildFis(<<42, 0, 0, 0>>, 1, TRUE, TRUE)
               ELSE IdentifyFis, in.off, in.len, in.w)

InitEC ==
    /\ physBase \in {PhysBases[1], PhysBases[2]}
    /\ wt = WtIdle
    /\ DriverReady
    /\ ~is_lba48

NextEC ==
    \/ EcCallAny
    \/ EcSlotWait
    \/ EcSlotTimeout
    \/ EcBuild
    \/ EcFlush
    \/ EcIssue
    \/ EcDoneWait
    \/ EcFinish
    \/ DevComplete

SpecEC == InitEC /\ [][NextEC]_vars

\* The same with a driver that keeps running and a clock that keeps going:
\* a wait does not poll for ever without the clock reaching its timeout.
EcLiveInputs ==
    {[off |-> 0, len |-> 512, w |-> FALSE], [off |-> 0, len |-> 10 * MiB, w |-> TRUE],
     [off |-> 0, len |-> (224 * MiB) + 1, w |-> FALSE]}

EcCallLive ==
    \E in \in EcLiveInputs :
        EcCall(IF in.w THEN BuildFis(<<42, 0, 0, 0>>, 1, TRUE, TRUE)
               ELSE IdentifyFis, in.off, in.len, in.w)

NextECLive ==
    \/ EcCallLive
    \/ EcSlotWait
    \/ EcSlotTimeout
    \/ EcBuild
    \/ EcFlush
    \/ EcIssue
    \/ EcDoneWait
    \/ EcFinish
    \/ DevComplete

SpecECLive ==
    /\ InitEC
    /\ [][NextECLive]_vars
    /\ WF_vars(EcSlotWait)
    /\ WF_vars(EcSlotTimeout)
    /\ WF_vars(EcBuild)
    /\ WF_vars(EcFlush)
    /\ WF_vars(EcIssue)
    /\ WF_vars(EcDoneWait)
    /\ WF_vars(EcFinish)

(***************************************************************************)
(* wait_until_timeout(cond, timeout), statement by statement:              *)
(*     let start = H::current_ms();                                        *)
(*     loop { if cond() { return true; }                                   *)
(*            if H::current_ms() - start > timeout { return false; }       *)
(*            core::hint::spin_loop(); }                                   *)
(* cond reads a register, so each evaluation may give either value; the    *)
(* clock never runs backwards and may stand still between two statements.  *)
(***************************************************************************)
\* let start = H::current_ms()
WtStart ==
    /\ wt.pc = "call"
    /\ wt' = [wt EXCEPT !.pc = "eval", !.start = wt.now]
    /\ UNCHANGED <<ctlVars, hwNP, hwSCLO, hwAE, hwPI, fakeVars, physBase,
                   warned, idVars>>
    /\ UNCHANGED <<ghc, pcmd, idx, result, hostAcc, probeAcc, portRes,
                   tried, sawDet3, sawReady, drvVars, rwVars, ecVars,
                   dmaVars, ci, callVars, ghostVars, id83, lastIssue>>

\* if cond() { return true; }
WtEval ==
    /\ wt.pc = "eval"
    /\ \E c \in BOOLEAN :
        wt' = [wt EXCEPT !.pc = IF c THEN "ret" ELSE "clock",
                         !.evals = Min(@ + 1, 2),
                         !.seen = c,
                         !.ret = IF c THEN "true" ELSE @]
    /\ UNCHANGED <<ctlVars, hwNP, hwSCLO, hwAE, hwPI, fakeVars, physBase,
                   warned, idVars>>
    /\ UNCHANGED <<ghc, pcmd, idx, result, hostAcc, probeAcc, portRes,
                   tried, sawDet3, sawReady, drvVars, rwVars, ecVars,
                   dmaVars, ci, callVars, ghostVars, id83, lastIssue>>

\* a wait that gives up as soon as the timeout is reached
WtClock_ge ==
    /\ wt.pc = "clock"
    /\ wt' = [wt EXCEPT !.read = wt.now - wt.start,
                        !.pc = IF wt.now - wt.start >= wt.timeout
                               THEN "ret" ELSE "eval",
                        !.ret = IF wt.now - wt.start >= wt.timeout
                                THEN "false" ELSE @]
    /\ UNCHANGED <<ctlVars, hwNP, hwSCLO, hwAE, hwPI, fakeVars, physBase,
                   warned, idVars>>
    /\ UNCHANGED <<ghc, pcmd, idx, result, hostAcc, probeAcc, portRes,
                   tried, sawDet3, sawReady, drvVars, rwVars, ecVars,
                   dmaVars, ci, callVars, ghostVars, id83, lastIssue>>

\* if H::current_ms() - start > timeout { return false; } spin_loop()
WtClock ==
    /\ wt.pc = "clock"
    /\ wt' = [wt EXCEPT !.read = wt.now - wt.start,
                        !.pc = IF wt.now - wt.start > wt.timeout
                               THEN "ret" ELSE "eval",
                        !.ret = IF wt.now - wt.start > wt.timeout
                                THEN "false" ELSE @]
    /\ UNCHANGED <<ctlVars, hwNP, hwSCLO, hwAE, hwPI, fakeVars, physBase,
                   warned, idVars>>
    /\ UNCHANGED <<ghc, pcmd, idx, result, hostAcc, probeAcc, portRes,
                   tried, sawDet3, sawReady, drvVars, rwVars, ecVars,
                   dmaVars, ci, callVars, ghostVars, id83, lastIssue>>

\* the clock of the HAL advances
WtTick ==
    /\ wt.pc \in {"call", "eval", "clock"}
    /\ wt.now < MaxClock
    /\ wt' = [wt EXCEPT !.now = @ + 1]
    /\ UNCHANGED <<ctlVars, hwNP, hwSCLO, hwAE, hwPI, fakeVars, physBase,
                   warned, idVars>>
    /\ UNCHANGED <<ghc, pcmd, idx, result, hostAcc, probeAcc, portRes,
                   tried, sawDet3, sawReady, drvVars, rwVars, ecVars,
                   dmaVars, ci, callVars, ghostVars, id83, lastIssue>>

WtTimeouts == {0, 1, 2}

InitWT ==
    /\ physBase = PhysBases[1]
    /\ DriverReady
    /\ \E t \in WtTimeouts, n \in {0, 1} :
        wt = [WtIdle EXCEPT !.pc = "call", !.timeout = t, !.now = n]

NextWT ==
    \/ WtStart
    \/ WtEval
    \/ WtClock
    \/ WtTick

SpecWT == InitWT /\ [][NextWT]_vars

(***************************************************************************)
(* Round trip against a memory-backed fake controller.  The fake executes  *)
(* a command the moment its CI bit is written: it decodes the command FIS  *)
(* and the PRD table of the slot as a device does and moves whole sectors  *)
(* between its backing store and the memory the PRD entries address.       *)
(* Contents are tokens: sector j of the buffer written holds <<j>>, the    *)
(* golden contents of device sector s are s itself, and a read buffer is   *)
(* filled with <<>> before the call.  The store and the read buffer are    *)
(* kept as logs of runs of consecutive sectors, the latest run on top.     *)
(***************************************************************************)
WBuf(j) == <<j>>
Gold(s) == s
Junk == <<>>

\* the token i sectors after token tok, in the buffer or on the device
Shift(tok, i) == IF Len(tok) = 1 THEN <<tok[1] + i>> ELSE AddU64(tok, i)

\* x - y if that is in 0..2^30-1, and -1 if it is not
Dist(x, y) ==
    IF x[4] - y[4] \notin {-1, 0, 1} THEN -1
    ELSE LET v3 == (x[3] - y[3]) + W16 * (x[4] - y[4])
         IN  IF v3 \notin {-1, 0, 1} THEN -1
             ELSE LET v2 == (x[2] - y[2]) + W16 * v3
                  IN  IF v2 < -1 \/ v2 > 16383 THEN -1
                      ELSE LET d == (x[1] - y[1]) + W16 * v2
                           IN  IF d < 0 THEN -1 ELSE d

\* contents of device sector s after the writes log[1..i]
RECURSIVE DiskAtIn(_, _, _)
DiskAtIn(log, i, s) ==
    IF i = 0 THEN Gold(s)
    ELSE LET d == Dist(s, log[i].at)
         IN  IF d >= 0 /\ d < log[i].n THEN Shift(log[i].tok, d)
             ELSE DiskAtIn(log, i - 1, s)

\* contents of sector j (from 0) of the read buffer after the reads log[1..i]
RECURSIVE RBufAtIn(_, _, _)
RBufAtIn(log, i, j) ==
    IF i = 0 THEN Junk
    ELSE IF j >= log[i].at /\ j < log[i].at + log[i].n
    THEN DiskAtIn(log[i].snap, Len(log[i].snap),
                  AddU64(log[i].dev, j - log[i].at))
    ELSE RBufAtIn(log, i - 1, j)

DiskAt(s) == DiskAtIn(disk, Len(disk), s)
RBufAt(j) == RBufAtIn(rbuf, Len(rbuf), j)

\* the LBA a device takes from a command FIS
FisLba(h) ==
    IF h.command \in {ATA_CMD_READ_EXT, ATA_CMD_WRITE_EXT}
    THEN <<h.lba_low + 256 * h.lba_mid, h.lba_high + 256 * h.lba_low_exp,
           h.lba_mid_exp + 256 * h.lba_high_exp, 0>>
    ELSE <<h.lba_low + 256 * h.lba_mid, h.lba_high + 256 * (h.device % 16),
           0, 0>>

\* the sector count a device takes from a command FIS: 0 stands for the most
FisSectors(h) ==
    IF h.command \in {ATA_CMD_READ_EXT, ATA_CMD_WRITE_EXT}
    THEN LET c == h.sector_count + 256 * h.sector_count_exp
         IN  IF c = 0 THEN 65536 ELSE c
    ELSE IF h.sector_count = 0 THEN 256 ELSE h.sector_count

\* the runs of a transfer of at most left sectors from device sector dev on,
\* as entries i.. of a PRD table lay it out in memory
RECURSIVE PrdRuns(_, _, _, _)
PrdRuns(sgs, i, dev, left) ==
    IF i > Len(sgs) \/ left <= 0 THEN <<>>
    ELSE LET z == Min((sgs[i].flags_size + 1) \div BlockSize, left)
             a == Dist(<<sgs[i].addr_lo[1], sgs[i].addr_lo[2],
                         sgs[i].addr_hi[1], sgs[i].addr_hi[2]>>, physBase)
         IN  <<[mem |-> a \div BlockSize, dev |-> dev, n |-> z]>>
             \o PrdRuns(sgs, i + 1, AddU64(dev, z), left - z)

FakeComplete ==
    /\ \E p \in Ports :
        /\ ci[p] = 1
        /\ LET h    == cmdTbl[p].hdr
               sgs  == SubSeq(cmdTbl[p].sgs, 1, cmdHdr[p].opts \div 65536)
               runs == PrdRuns(sgs, 1, FisLba(h), FisSectors(h))
           IN  /\ disk' =
                    IF h.command \in {ATA_CMD_WRITE, ATA_CMD_WRITE_EXT}
                    THEN disk \o [k \in 1..Len(runs) |->
                                    [at |-> runs[k].dev, n |-> runs[k].n,
                                     tok |-> WBuf(runs[k].mem)]]
                    ELSE disk
               /\ rbuf' =
                    IF h.command \in {ATA_CMD_READ, ATA_CMD_READ_EXT}
                    THEN rbuf \o [k \in 1..Len(runs) |->
                                    [at |-> runs[k].mem, n |-> runs[k].n,
                                     dev |-> runs[k].dev, snap |-> disk]]
                    ELSE rbuf
        /\ ci' = [ci EXCEPT ![p] = 0]
    /\ UNCHANGED <<ctlVars, hwNP, hwSCLO, hwAE, hwPI, physBase, warned, wt, idVars,
                   rtPhase, rtLba, rtN, ghc,
                   pcmd, idx, result, hostAcc, probeAcc, portRes, tried,
                   sawDet3, sawReady, drvVars, rwVars, ecVars, dmaVars,
                   callVars, ghostVars, id83, lastIssue>>

\* LBAs and lengths (in sectors) of the round trip; every sector touched is
\* one the device can address
RtLbas(lba48) ==
    IF lba48
    THEN {U64Zero, <<65530, 65535, 7, 0>>, <<0, 65534, 65535, 0>>}
    ELSE {U64Zero, <<65530, 7, 0, 0>>, <<65000, 4095, 0, 0>>}

RtLens(lba48) == IF lba48 THEN {1, 3, 65536, 65537} ELSE {1, 3, 256, 513}

\* the test makes four calls: a read of the sectors while they are still
\* golden, write(lba, buf), read(lba, buf2), and a read one sector further
RtCall ==
    /\ rtPhase < 4
    /\ \E lba \in RtLbas(is_lba48), n \in RtLens(is_lba48) :
        /\ rtPhase > 0 => (lba = rtLba /\ n = rtN)
        /\ rtLba' = lba
        /\ rtN' = n
        /\ RwEnter(IF rtPhase = 3 THEN AddU64(lba, 1) ELSE lba, BlockSize * n,
                   rtPhase = 1)
        /\ rbuf' = IF rtPhase = 1 THEN rbuf ELSE <<>>
    /\ rtPhase' = rtPhase + 1
    /\ UNCHANGED <<hwNP, hwSCLO, hwAE, hwPI, physBase, warned, wt, idVars, disk,
                   ghc,
                   pcmd, idx, result, hostAcc,
                   probeAcc, portRes, tried, sawDet3, sawReady>>

\* no command is outstanding: the fake has acted on every CI write
Quiet == \A p \in Ports : ci[p] = 0

InitRT == InitRW /\ Quiet

NextRT ==
    \/ (Quiet /\ RtCall)
    \/ (Quiet /\ RwLoop)
    \/ (Quiet /\ RwAdvance)
    \/ (Quiet /\ EcSlotWait)
    \/ (Quiet /\ EcBuild)
    \/ (Quiet /\ EcFlush)
    \/ (Quiet /\ EcIssue)
    \/ (Quiet /\ EcDoneWait)
    \/ (Quiet /\ EcFinish)
    \/ FakeComplete

SpecRT == InitRT /\ [][NextRT]_vars

(***************************************************************************)
(* AhciDriver::try_new: controller reset and enable, capability seed,      *)
(* port probe, IDENTIFY.                                                   *)
(***************************************************************************)
portGhost == <<probeAcc, portRes, tried, sawDet3, sawReady>>
pipeVars  == <<rwVars, callVars, ghostVars, ci, lastIssue>>

\* a reset step that already enables AHCI mode
DrvReset_withAE ==
    /\ pc = "start"
    /\ pc' = "reset_wait"
    /\ elapsed' = 0
    /\ ghc' = [ghc EXCEPT !.HR = TRUE, !.AE = TRUE]
    /\ hostAcc' = hostAcc \cup {"r:GHC", "w:GHC"}
    /\ UNCHANGED <<hwConst, pcmd, idx, result, portGhost, drvVars, ecVars,
                   dmaVars, pipeVars, id83>>

\* host.ghc().update(|ghc| { if !ghc.HR() { ghc.set_HR(true) } ghc })
DrvReset ==
    /\ pc = "start"
    /\ pc' = "reset_wait"
    /\ elapsed' = 0
    /\ ghc' = [ghc EXCEPT !.HR = TRUE]
    /\ hostAcc' = hostAcc \cup {"r:GHC", "w:GHC"}
    /\ UNCHANGED <<hwConst, pcmd, idx, result, portGhost, drvVars, ecVars,
                   dmaVars, pipeVars, id83>>

\* wait_until_timeout(|| !host.ghc().read().HR(), 1000)
DrvResetWait ==
    /\ pc = "reset_wait"
    /\ Poll(~ghc.HR, WaitTimeout, "enable", "reset_timeout")
    /\ hostAcc' = hostAcc \cup {"r:GHC"}
    /\ UNCHANGED <<hwConst, ghc, pcmd, idx, result, portGhost, drvVars,
                   ecVars, dmaVars, pipeVars, id83>>

\* error!("AHCI HBA reset timeout"); return None;
DrvResetTimeout ==
    /\ pc = "reset_timeout"
    /\ pc' = "dead_reset"
    /\ result' = "None"
    /\ UNCHANGED <<elapsed, hwConst, ghc, pcmd, idx, hostAcc, portGhost,
                   drvVars, ecVars, dmaVars, pipeVars, id83>>

\* a constructor that leaves GHC.AE as the reset left it
DrvEnable_noAE ==
    /\ pc = "enable"
    /\ pc' = "ae_delay"
    /\ elapsed' = 0
    /\ ghc' = ghc
    /\ hostAcc' = hostAcc \cup {"r:GHC", "w:GHC"}
    /\ UNCHANGED <<hwConst, pcmd, idx, result, portGhost, drvVars, ecVars,
                   dmaVars, pipeVars, id83>>

\* host.ghc().update(|ghc| ghc.with_AE(true))
DrvEnable ==
    /\ pc = "enable"
    /\ pc' = "ae_delay"
    /\ elapsed' = 0
    /\ ghc' = [ghc EXCEPT !.AE = TRUE]
    /\ hostAcc' = hostAcc \cup {"r:GHC", "w:GHC"}
    /\ UNCHANGED <<hwConst, pcmd, idx, result, portGhost, drvVars, ecVars,
                   dmaVars, pipeVars, id83>>

\* wait_until_timeout(|| false, 1)
DrvAeDelay ==
    /\ pc = "ae_delay"
    /\ Poll(FALSE, AeDelay, "seed", "seed")
    /\ UNCHANGED <<hwConst, ghc, pcmd, idx, result, hostAcc, portGhost,
                   drvVars, ecVars, dmaVars, pipeVars, id83>>

\* host.cap().write(CAP::new().with_SMPS(true).with_SSS(true));
\* host.pi().write(0xf)
DrvSeed ==
    /\ pc = "seed"
    /\ pc' = "info"
    /\ hostAcc' = hostAcc \cup {"w:CAP", "w:PI"}
    /\ UNCHANGED <<elapsed, hwConst, ghc, pcmd, idx, result, portGhost,
                   drvVars, ecVars, dmaVars, pipeVars, id83>>

\* the reads of VS, CAP, CAP2 and PI; cap.NP() is hwNP from here on
DrvInfo ==
    /\ pc = "info"
    /\ pc' = "irq"
    /\ hostAcc' = hostAcc \cup {"r:VS", "r:CAP", "r:CAP2", "r:PI"}
    /\ UNCHANGED <<elapsed, hwConst, ghc, pcmd, idx, result, portGhost,
                   drvVars, ecVars, dmaVars, pipeVars, id83>>

\* host.ghc().update(|ghc| ghc.with_IE(true)); let mut port = None; i = 0
DrvIrq ==
    /\ pc = "irq"
    /\ pc' = "port_loop"
    /\ ghc' = [ghc EXCEPT !.IE = TRUE]
    /\ hostAcc' = hostAcc \cup {"r:GHC", "w:GHC"}
    /\ idx' = 0
    /\ bound' = NoPort
    /\ UNCHANGED <<elapsed, hwConst, pcmd, result, portGhost, is_lba48,
                   ecVars, dmaVars, pipeVars, id83>>

\* a probe loop that stops the port it holds before it tries the next one
DrvPortLoop_stopOld ==
    /\ pc = "port_loop"
    /\ IF idx < hwNP + 1
       THEN /\ pc' = "p_stop"
            /\ tried' = Append(tried, idx)
       ELSE /\ pc' = "probe_done"
            /\ UNCHANGED tried
    /\ pcmd' = IF bound # NoPort /\ idx < hwNP + 1
               THEN [pcmd EXCEPT ![bound].ST = FALSE, ![bound].FRE = FALSE]
               ELSE pcmd
    /\ UNCHANGED <<elapsed, hwConst, ghc, idx, result, hostAcc,
                   probeAcc, portRes, sawDet3, sawReady, drvVars, ecVars,
                   dmaVars, pipeVars, id83>>

\* for i in 0..cap.NP() + 1: call AhciPort::try_new(&mmio, i), or leave the
\* loop
DrvPortLoop ==
    /\ pc = "port_loop"
    /\ IF idx < hwNP + 1
       THEN /\ pc' = "p_stop"
            /\ tried' = Append(tried, idx)
       ELSE /\ pc' = "probe_done"
            /\ UNCHANGED tried
    /\ UNCHANGED <<elapsed, hwConst, ghc, pcmd, idx, result, hostAcc,
                   probeAcc, portRes, sawDet3, sawReady, drvVars, ecVars,
                   dmaVars, pipeVars, id83>>

\* a try_new that does not fail when the loop kept no port
DrvProbeDone_some ==
    /\ pc = "probe_done"
    /\ IF bound = NoPort
       THEN /\ pc' = "dead_nodev"
            /\ result' = "Some"
            /\ UNCHANGED <<ecVars, id83, idSect, ecOutcome, trace>>
       ELSE /\ pc' = "ec_slot"
            /\ ecFis' = IdentifyFis
            /\ ecOff' = 0
            /\ ecLen' = 2 * ATA_ID_WORDS
            /\ ecWrite' = FALSE
            /\ ecRet' = "identify"
            /\ id83' = 0
            /\ idSect' = ZeroSectors
            /\ ecOutcome' = "running"
            /\ trace' = <<>>
            /\ UNCHANGED result
    /\ elapsed' = 0
    /\ UNCHANGED <<hwFixed, max_lba, ghc, pcmd, idx, hostAcc, portGhost, drvVars,
                   dmaVars, rwVars, callVars, ciWrites, flushes, ci, lastIssue,
                   hdrSlots, ciVals>>

\* let Some(mut port) = port else { return None }; then the IDENTIFY command
\* into the zeroed buffer id
DrvProbeDone ==
    /\ pc = "probe_done"
    /\ IF bound = NoPort
       THEN /\ pc' = "dead_nodev"
            /\ result' = "None"
            /\ UNCHANGED <<ecVars, id83, idSect, ecOutcome, trace>>
       ELSE /\ pc' = "ec_slot"
            /\ ecFis' = IdentifyFis
            /\ ecOff' = 0
            /\ ecLen' = 2 * ATA_ID_WORDS
            /\ ecWrite' = FALSE
            /\ ecRet' = "identify"
            /\ id83' = 0
            /\ idSect' = ZeroSectors
            /\ ecOutcome' = "running"
            /\ trace' = <<>>
            /\ UNCHANGED result
    /\ elapsed' = 0
    /\ UNCHANGED <<hwFixed, max_lba, ghc, pcmd, idx, hostAcc, portGhost, drvVars,
                   dmaVars, rwVars, callVars, ciWrites, flushes, ci, lastIssue,
                   hdrSlots, ciVals>>

\* a constructor that gives up when IDENTIFY was not completed
DrvIdentified_checked ==
    /\ pc = "id_done"
    /\ pc' = IF ecOutcome = "done" THEN "idle" ELSE "dead_nodev"
    /\ is_lba48' = ata_id_has_lba48(id83)
    /\ max_lba' = ata_id_n_sectors(id83, idSect)
    /\ result' = IF ecOutcome = "done" THEN "Some" ELSE "None"
    /\ UNCHANGED <<elapsed, hwFixed, idSect, ghc, pcmd, idx, hostAcc, portGhost,
                   bound, ecVars, dmaVars, pipeVars, id83>>

\* after IDENTIFY returned: decode id and return Some(Self { .. })
DrvIdentified ==
    /\ pc = "id_done"
    /\ pc' = "idle"
    /\ is_lba48' = ata_id_has_lba48(id83)
    /\ max_lba' = ata_id_n_sectors(id83, idSect)
    /\ result' = "Some"
    /\ UNCHANGED <<elapsed, hwFixed, idSect, ghc, pcmd, idx, hostAcc, portGhost,
                   bound, ecVars, dmaVars, pipeVars, id83>>

\* the controller finishes its reset: HR reads 0 and GHC has its reset value
DevResetDone ==
    /\ ghc.HR
    /\ ghc' = [HR |-> FALSE, AE |-> hwAE, IE |-> FALSE]
    /\ UNCHANGED <<ctlVars, hwConst, pcmd, idx, result, hostAcc, portGhost,
                   drvVars, ecVars, dmaVars, pipeVars, id83>>

(***************************************************************************)
(* AhciPort::try_new(host, i), with i = idx.  Bits the hardware owns       *)
(* (CMD.CR, CMD.FR, the read-back of CMD.SUD, TFD, SSTS.DET) take an       *)
(* arbitrary value at each read.                                           *)
(***************************************************************************)
portFrame == <<hwConst, ghc, result, tried, is_lba48, ecVars, pipeVars, id83>>
portKeep  == <<hwNP, hwSCLO, hwAE, hwPI, fakeVars, physBase, wt, idVars, ghc,
               result,
               tried,
               is_lba48, ecVars, pipeVars, id83>>

\* the wait of this step gave up: Poll left minus the clock reading
GaveUp == elapsed' < 0 /\ pc' # pc

DetValues == {0, 1, 3}

Touch(acc, regs) == [acc EXCEPT ![idx] = @ \cup regs]

\* port.CMD().update(|cmd| cmd.with_ST(false).with_FRE(false))
PStop ==
    /\ pc = "p_stop"
    /\ pc' = "p_cr_wait"
    /\ elapsed' = 0
    /\ pcmd' = [pcmd EXCEPT ![idx].ST = FALSE, ![idx].FRE = FALSE]
    /\ probeAcc' = Touch(probeAcc, {"r:CMD", "w:CMD"})
    /\ UNCHANGED <<portFrame, bound, idx, hostAcc, portRes, sawDet3, sawReady,
                   dmaVars>>

\* a CR wait whose timeout is followed by return None
PCrWait_fatal ==
    /\ pc = "p_cr_wait"
    /\ \E cr \in BOOLEAN : Poll(~cr, StopTimeout, "p_fr_wait", "p_fail")
    /\ probeAcc' = Touch(probeAcc, {"r:CMD"})
    /\ warned' = IF GaveUp THEN warned \cup {"CR"} ELSE warned
    /\ UNCHANGED <<portKeep, bound, idx, pcmd, hostAcc, portRes, sawDet3,
                   sawReady, dmaVars>>

\* wait_until_timeout(|| !port.CMD().read().CR(), 500); a timeout only warns
PCrWait ==
    /\ pc = "p_cr_wait"
    /\ \E cr \in BOOLEAN : Poll(~cr, StopTimeout, "p_fr_wait", "p_fr_wait")
    /\ probeAcc' = Touch(probeAcc, {"r:CMD"})
    /\ warned' = IF GaveUp THEN warned \cup {"CR"} ELSE warned
    /\ UNCHANGED <<portKeep, bound, idx, pcmd, hostAcc, portRes, sawDet3,
                   sawReady, dmaVars>>

\* wait_until_timeout(|| !port.CMD().read().FR(), 500); a timeout only warns
PFrWait ==
    /\ pc = "p_fr_wait"
    /\ \E fr \in BOOLEAN : Poll(~fr, StopTimeout, "p_tfd", "p_tfd")
    /\ probeAcc' = Touch(probeAcc, {"r:CMD"})
    /\ warned' = IF GaveUp THEN warned \cup {"FR"} ELSE warned
    /\ UNCHANGED <<portKeep, bound, idx, pcmd, hostAcc, portRes, sawDet3,
                   sawReady, dmaVars>>

\* if tfd.STS_BSY() || tfd.STS_DRQ() { if cap.SCLO() { set CLO } }
PBusyCheck ==
    /\ pc = "p_tfd"
    /\ elapsed' = 0
    /\ \E busy \in BOOLEAN :
        IF busy
        THEN /\ hostAcc' = hostAcc \cup {"r:CAP"}
             /\ IF hwSCLO
                THEN /\ pc' = "p_clo_wait"
                     /\ pcmd' = [pcmd EXCEPT ![idx].CLO = TRUE]
                     /\ probeAcc' = Touch(probeAcc, {"r:TFD", "r:CMD", "w:CMD"})
                ELSE /\ pc' = "p_sud"
                     /\ probeAcc' = Touch(probeAcc, {"r:TFD"})
                     /\ UNCHANGED pcmd
        ELSE /\ pc' = "p_sud"
             /\ probeAcc' = Touch(probeAcc, {"r:TFD"})
             /\ UNCHANGED <<pcmd, hostAcc>>
    /\ UNCHANGED <<portFrame, bound, idx, portRes, sawDet3, sawReady, dmaVars>>

\* wait_until_timeout(|| !port.CMD().read().CLO(), 1000); a timeout only warns
PCloWait ==
    /\ pc = "p_clo_wait"
    /\ Poll(~pcmd[idx].CLO, WaitTimeout, "p_sud", "p_sud")
    /\ probeAcc' = Touch(probeAcc, {"r:CMD"})
    /\ warned' = IF GaveUp THEN warned \cup {"CLO"} ELSE warned
    /\ UNCHANGED <<portKeep, bound, idx, pcmd, hostAcc, portRes, sawDet3,
                   sawReady, dmaVars>>

\* port.CMD().update(|cmd| cmd.with_SUD(true))
PSpinUp ==
    /\ pc = "p_sud"
    /\ pc' = "p_sud_wait"
    /\ elapsed' = 0
    /\ pcmd' = [pcmd EXCEPT ![idx].SUD = TRUE]
    /\ probeAcc' = Touch(probeAcc, {"r:CMD", "w:CMD"})
    /\ UNCHANGED <<portFrame, bound, idx, hostAcc, portRes, sawDet3, sawReady,
                   dmaVars>>

\* a spin-up wait whose timeout is only warned
PSudWait_warnOnly ==
    /\ pc = "p_sud_wait"
    /\ \E sud \in BOOLEAN : Poll(sud, WaitTimeout, "p_link_wait", "p_link_wait")
    /\ probeAcc' = Touch(probeAcc, {"r:CMD"})
    /\ UNCHANGED <<portFrame, bound, idx, pcmd, hostAcc, portRes, sawDet3,
                   sawReady, dmaVars>>

\* wait_until_timeout(|| port.CMD().read().SUD(), 1000), else return None
PSudWait ==
    /\ pc = "p_sud_wait"
    /\ \E sud \in BOOLEAN : Poll(sud, WaitTimeout, "p_link_wait", "p_fail")
    /\ probeAcc' = Touch(probeAcc, {"r:CMD"})
    /\ UNCHANGED <<portFrame, bound, idx, pcmd, hostAcc, portRes, sawDet3,
                   sawReady, dmaVars>>

\* wait_until_timeout(|| det == 0x1 || det == 0x3, 1000), else return None
PLinkWait ==
    /\ pc = "p_link_wait"
    /\ \E det \in DetValues :
        /\ Poll(det = 1 \/ det = 3, WaitTimeout, "p_clear", "p_fail")
        /\ sawDet3' = [sawDet3 EXCEPT ![idx] = @ \/ det = 3]
    /\ probeAcc' = Touch(probeAcc, {"r:SSTS"})
    /\ UNCHANGED <<portFrame, bound, idx, pcmd, hostAcc, portRes, sawReady,
                   dmaVars>>

\* port.SERR().write(port.SERR().read()); port.IS().write(port.IS().read())
PClearErr ==
    /\ pc = "p_clear"
    /\ pc' = "p_ie"
    /\ probeAcc' = Touch(probeAcc, {"r:SERR", "w:SERR", "r:IS", "w:IS"})
    /\ UNCHANGED <<elapsed, portFrame, bound, idx, pcmd, hostAcc, portRes,
                   sawDet3, sawReady, dmaVars>>

\* port.IE().write(PxI::default_enable().with_DP(true))
PIrqEnable ==
    /\ pc = "p_ie"
    /\ pc' = "p_gis"
    /\ probeAcc' = Touch(probeAcc, {"w:IE"})
    /\ UNCHANGED <<elapsed, portFrame, bound, idx, pcmd, hostAcc, portRes,
                   sawDet3, sawReady, dmaVars>>

\* host.host().is().write(1 << i)
PGlobalIs ==
    /\ pc = "p_gis"
    /\ pc' = "p_det"
    /\ hostAcc' = hostAcc \cup {"w:IS"}
    /\ probeAcc' = Touch(probeAcc, {"w:HOST_IS"})
    /\ UNCHANGED <<elapsed, portFrame, bound, idx, pcmd, portRes,
                   sawDet3, sawReady, dmaVars>>

\* a check that takes DET = 1 (presence, no communication) for PHY ready
PDetCheck_link ==
    /\ pc = "p_det"
    /\ elapsed' = 0
    /\ \E det \in DetValues :
        /\ pc' = IF det = 0 THEN "p_phy_wait" ELSE "p_alloc"
        /\ sawDet3' = [sawDet3 EXCEPT ![idx] = @ \/ det = 3]
    /\ probeAcc' = Touch(probeAcc, {"r:SSTS"})
    /\ UNCHANGED <<portFrame, bound, idx, pcmd, hostAcc, portRes, sawReady,
                   dmaVars>>

\* if port.SSTS().read().DET() != 3 { wait for it } else go on
PDetCheck ==
    /\ pc = "p_det"
    /\ elapsed' = 0
    /\ \E det \in DetValues :
        /\ pc' = IF det # 3 THEN "p_phy_wait" ELSE "p_alloc"
        /\ sawDet3' = [sawDet3 EXCEPT ![idx] = @ \/ det = 3]
    /\ probeAcc' = Touch(probeAcc, {"r:SSTS"})
    /\ UNCHANGED <<portFrame, bound, idx, pcmd, hostAcc, portRes, sawReady,
                   dmaVars>>

\* wait_until_timeout(|| port.SSTS().read().DET() == 3, 1000), else None
PPhyWait ==
    /\ pc = "p_phy_wait"
    /\ \E det \in DetValues :
        /\ Poll(det = 3, WaitTimeout, "p_alloc", "p_fail")
        /\ sawDet3' = [sawDet3 EXCEPT ![idx] = @ \/ det = 3]
    /\ probeAcc' = Touch(probeAcc, {"r:SSTS"})
    /\ UNCHANGED <<portFrame, bound, idx, pcmd, hostAcc, portRes, sawReady,
                   dmaVars>>

\* the zeroed Command List, Received-FIS area and Command Table are
\* allocated and CLB/CLBU, FB/FBU programmed
PAlloc ==
    /\ pc = "p_alloc"
    /\ pc' = "p_start"
    /\ cmdTbl' = [cmdTbl EXCEPT ![idx] = EmptyTbl]
    /\ cmdHdr' = [cmdHdr EXCEPT ![idx] = EmptyHdr]
    /\ pbase' = [pbase EXCEPT ![idx] = PortBases(idx)]
    /\ probeAcc' = Touch(probeAcc, {"w:CLB", "w:CLBU", "w:FB", "w:FBU"})
    /\ UNCHANGED <<elapsed, portFrame, bound, idx, pcmd, hostAcc, portRes,
                   sawDet3, sawReady>>

\* port.CMD().write(PxCMD::new().with_ICC(Active).with_FRE(true)
\*     .with_POD(true).with_SUD(true).with_ST(true))
PStart ==
    /\ pc = "p_start"
    /\ pc' = "p_ready_wait"
    /\ elapsed' = 0
    /\ pcmd' = [pcmd EXCEPT ![idx] = CmdStart]
    /\ probeAcc' = Touch(probeAcc, {"w:CMD"})
    /\ UNCHANGED <<portFrame, bound, idx, hostAcc, portRes, sawDet3, sawReady,
                   dmaVars>>

\* a ready wait that does not look at STS_ERR
PReadyWait_noErr ==
    /\ pc = "p_ready_wait"
    /\ \E err \in BOOLEAN, drq \in BOOLEAN, bsy \in BOOLEAN :
        /\ Poll(~(drq \/ bsy), WaitTimeout, "p_ok", "p_fail")
        /\ sawReady' = [sawReady EXCEPT ![idx] = @ \/ ~(err \/ drq \/ bsy)]
    /\ probeAcc' = Touch(probeAcc, {"r:TFD"})
    /\ UNCHANGED <<portFrame, bound, idx, pcmd, hostAcc, portRes, sawDet3,
                   dmaVars>>

\* wait_until_timeout(|| !(tfd.STS_ERR() | tfd.STS_DRQ() | tfd.STS_BSY()),
\* 1000), else return None
PReadyWait ==
    /\ pc = "p_ready_wait"
    /\ \E err \in BOOLEAN, drq \in BOOLEAN, bsy \in BOOLEAN :
        /\ Poll(~(err \/ drq \/ bsy), WaitTimeout, "p_ok", "p_fail")
        /\ sawReady' = [sawReady EXCEPT ![idx] = @ \/ ~(err \/ drq \/ bsy)]
    /\ probeAcc' = Touch(probeAcc, {"r:TFD"})
    /\ UNCHANGED <<portFrame, bound, idx, pcmd, hostAcc, portRes, sawDet3,
                   dmaVars>>

\* a loop body that keeps the first port that came up
PReturnSome_keepFirst ==
    /\ pc = "p_ok"
    /\ pc' = "port_loop"
    /\ bound' = IF bound = NoPort THEN idx ELSE bound
    /\ portRes' = [portRes EXCEPT ![idx] = "some"]
    /\ idx' = idx + 1
    /\ warned' = {}
    /\ UNCHANGED <<elapsed, portKeep, pcmd, hostAcc, probeAcc, sawDet3,
                   sawReady, dmaVars>>

\* Some(Self { .. }) is returned and the loop body does port = Some(p)
PReturnSome ==
    /\ pc = "p_ok"
    /\ pc' = "port_loop"
    /\ bound' = idx
    /\ portRes' = [portRes EXCEPT ![idx] = "some"]
    /\ idx' = idx + 1
    /\ warned' = {}
    /\ UNCHANGED <<elapsed, portKeep, pcmd, hostAcc, probeAcc, sawDet3,
                   sawReady, dmaVars>>

\* a loop body that assigns the result of every probe: port = try_new(i)
PReturnNone_overwrite ==
    /\ pc = "p_fail"
    /\ pc' = "port_loop"
    /\ bound' = NoPort
    /\ portRes' = [portRes EXCEPT ![idx] = "none"]
    /\ idx' = idx + 1
    /\ warned' = {}
    /\ UNCHANGED <<elapsed, portKeep, pcmd, hostAcc, probeAcc, sawDet3,
                   sawReady, dmaVars>>

\* None is returned; the loop keeps the port it had
PReturnNone ==
    /\ pc = "p_fail"
    /\ pc' = "port_loop"
    /\ portRes' = [portRes EXCEPT ![idx] = "none"]
    /\ idx' = idx + 1
    /\ warned' = {}
    /\ UNCHANGED <<elapsed, portKeep, bound, pcmd, hostAcc, probeAcc,
                   sawDet3, sawReady, dmaVars>>

\* CMD.CLO clears itself
DevCloClear ==
    /\ \E p \in Ports :
        /\ pcmd[p].CLO
        /\ pcmd' = [pcmd EXCEPT ![p].CLO = FALSE]
    /\ UNCHANGED <<ctlVars, hwConst, ghc, idx, result, hostAcc, portGhost,
                   drvVars, ecVars, dmaVars, pipeVars, id83>>

(***************************************************************************)
(* The driver from try_new on, followed by any number of read and write    *)
(* calls.                                                                  *)
(***************************************************************************)
CallInputs ==
    { <<<<42, 0, 0, 0>>, 512, FALSE>>,
      <<U64Zero, 1024, TRUE>>,
      <<<<65535, 4095, 0, 0>>, 131584, FALSE>> }

RwCallSmall == \E in \in CallInputs : RwCall(in[1], in[2], in[3])

\* the state before AhciDriver::try_new is called, PI left open
InitAnyPI ==
    /\ pc = "start"
    /\ elapsed = 0
    /\ hwNP \in 0..MaxNP
    /\ hwSCLO \in BOOLEAN
    /\ hwAE \in BOOLEAN
    /\ physBase = PhysBases[1]
    /\ wt = WtIdle
    /\ warned = {}
    /\ hdrSlots = {}
    /\ ciVals = {}
    /\ trace = <<>>
    /\ disk = <<>>
    /\ rbuf = <<>>
    /\ rtPhase = 0
    /\ rtLba = U64Zero
    /\ rtN = 0
    /\ \E hr \in BOOLEAN : ghc = [HR |-> hr, AE |-> hwAE, IE |-> FALSE]
    /\ pcmd = [p \in Ports |-> CmdReset]
    /\ idx = 0
    /\ id83 = 0
    /\ idSect = ZeroSectors
    /\ max_lba = U64Zero
    /\ result = "pending"
    /\ hostAcc = {}
    /\ probeAcc = [p \in Ports |-> {}]
    /\ portRes = [p \in Ports |-> "untried"]
    /\ tried = <<>>
    /\ sawDet3 = [p \in Ports |-> FALSE]
    /\ sawReady = [p \in Ports |-> FALSE]
    /\ lastIssue = [port |-> NoPort, hdr |-> FisDefault, opts |-> 0,
                    sgs |-> <<>>]
    /\ bound = NoPort
    /\ is_lba48 = FALSE
    /\ start = U64Zero
    /\ remaining_bytes = 0
    /\ buf_offset = 0
    /\ rw_write = FALSE
    /\ ecFis = FisDefault
    /\ ecOff = 0
    /\ ecLen = 0
    /\ ecWrite = FALSE
    /\ ecRet = "none"
    /\ cmdTbl = [p \in Ports |-> EmptyTbl]
    /\ cmdHdr = [p \in Ports |-> EmptyHdr]
    /\ pbase = [p \in Ports |-> NoBases]
    /\ ci = [p \in Ports |-> 0]
    /\ callLba = U64Zero
    /\ callLen = 0
    /\ curLba = U64Zero
    /\ curCount = 0
    /\ nCmds = 0
    /\ sumBytes = 0
    /\ sumSectors = 0
    /\ ciWrites = [p \in Ports |-> 0]
    /\ callCiW = FALSE
    /\ callFail = FALSE
    /\ refused = FALSE
    /\ flushes = 0
    /\ ecOutcome = "none"
    /\ lastRet = "none"

\* every port the controller has is available
Init == InitAnyPI /\ hwPI = 0..hwNP

\* PI has at least one bit set, among the bits of ports 0..CAP.NP
InitPI == InitAnyPI /\ hwPI \in ((SUBSET (0..hwNP)) \ {{}})

Next ==
    \/ DrvReset
    \/ DrvResetWait
    \/ DrvResetTimeout
    \/ DrvEnable
    \/ DrvAeDelay
    \/ DrvSeed
    \/ DrvInfo
    \/ DrvIrq
    \/ DrvPortLoop
    \/ PStop
    \/ PCrWait
    \/ PFrWait
    \/ PBusyCheck
    \/ PCloWait
    \/ PSpinUp
    \/ PSudWait
    \/ PLinkWait
    \/ PClearErr
    \/ PIrqEnable
    \/ PGlobalIs
    \/ PDetCheck
    \/ PPhyWait
    \/ PAlloc
    \/ PStart
    \/ PReadyWait
    \/ PReturnSome
    \/ PReturnNone
    \/ DrvProbeDone
    \/ DrvIdentified
    \/ EcSlotWait
    \/ EcSlotTimeout
    \/ EcBuild
    \/ EcFlush
    \/ EcIssue
    \/ EcDoneWait
    \/ EcFinish
    \/ RwCallSmall
    \/ RwLoop
    \/ RwAdvance
    \/ DevResetDone
    \/ DevCloClear
    \/ DevComplete

Spec == Init /\ [][Next]_vars

SpecPI == InitPI /\ [][Next]_vars

\* The driver is sequential code that keeps running, and the clock of the
\* HAL keeps advancing: a step of the driver that is possible is taken, and
\* a wait whose condition stays false comes to a reading past its timeout.
\* The controller and the device are under no obligation.
DriverStep ==
    \/ DrvReset \/ DrvResetWait \/ DrvResetTimeout \/ DrvEnable \/ DrvAeDelay
    \/ DrvSeed \/ DrvInfo \/ DrvIrq \/ DrvPortLoop
    \/ PStop \/ PCrWait \/ PFrWait \/ PBusyCheck \/ PCloWait \/ PSpinUp
    \/ PSudWait \/ PLinkWait \/ PClearErr \/ PIrqEnable \/ PGlobalIs
    \/ PDetCheck \/ PPhyWait \/ PAlloc \/ PStart \/ PReadyWait
    \/ PReturnSome \/ PReturnNone \/ DrvProbeDone \/ DrvIdentified
    \/ EcSlotWait \/ EcSlotTimeout \/ EcBuild \/ EcFlush \/ EcIssue
    \/ EcDoneWait \/ EcFinish \/ RwLoop \/ RwAdvance

\* the first call after construction: one write of 257 sectors, two
\* commands on an LBA28 device
RwCallLive == lastRet = "none" /\ RwCall(<<65535, 4095, 0, 0>>, 131584, TRUE)

InitLive == Init /\ ~hwAE

NextLive ==
    \/ DriverStep
    \/ RwCallLive
    \/ DevResetDone
    \/ DevCloClear
    \/ DevComplete

SpecLive == InitLive /\ [][NextLive]_vars /\ WF_vars(DriverStep)


(***************************************************************************)
(* Properties of the read/write pipeline.                                  *)
(***************************************************************************)
ExecPcs ==
    {"ec_slot", "ec_slot_timeout", "ec_size", "ec_flush", "ec_issue",
     "ec_done", "ec_completed", "ec_cmd_timeout"}

\* a command of rw_common is inside exec_cmd or has just returned from it
InRwCmd == ecRet = "rw" /\ pc \in (ExecPcs \cup {"rw_adv"})

\* a read/write call has returned
Returned == pc = "idle" /\ lastRet \notin {"none", "pending"}

CeilDiv(a, b) == IF a % b = 0 THEN a \div b ELSE (a \div b) + 1

SectorCap == IF is_lba48 THEN 65536 ELSE 256

\* bits 0..23, 24..27 and 24..47 of a 64-bit value
Bits0to23(x) == x[1] + 65536 * (x[2] % 256)
Bits24to27(x) == (x[2] \div 256) % 16
Bits24to47(x) == (x[2] \div 256) + 256 * x[3]

C2_FisEncoding ==
    InRwCmd =>
        /\ ecFis.fis_type = 39
        /\ ecFis.pm_port_c = 128
        /\ ecFis.lba_low + 256 * ecFis.lba_mid + 65536 * ecFis.lba_high
                = Bits0to23(curLba)
        /\ ecFis.lba_low \in 0..255
        /\ ecFis.lba_mid \in 0..255
        /\ ecFis.lba_high \in 0..255
        /\ ecFis.sector_count \in 0..255
        /\ (ecFis.sector_count - curCount) % 256 = 0
        /\ ecFis.features = 0 /\ ecFis.features_exp = 0
        /\ ecFis.res1 = 0 /\ ecFis.control = 0
        /\ IF is_lba48
           THEN /\ ecFis.command = (IF ecWrite THEN 52 ELSE 36)
                /\ ecFis.lba_low_exp + 256 * ecFis.lba_mid_exp
                        + 65536 * ecFis.lba_high_exp = Bits24to47(curLba)
                /\ ecFis.lba_low_exp \in 0..255
                /\ ecFis.lba_mid_exp \in 0..255
                /\ ecFis.lba_high_exp \in 0..255
                /\ ecFis.device = 64
                /\ ecFis.sector_count_exp \in 0..255
                /\ (ecFis.sector_count + 256 * ecFis.sector_count_exp
                        - curCount) % 65536 = 0
                /\ (curCount = 65536 =>
                        ecFis.sector_count = 0 /\ ecFis.sector_count_exp = 0)
           ELSE /\ ecFis.command = (IF ecWrite THEN 48 ELSE 32)
                /\ ecFis.device = 64 + Bits24to27(curLba)
                /\ (curCount = 256 => ecFis.sector_count = 0)
                /\ ecFis.lba_low_exp = 0
                /\ ecFis.lba_mid_exp = 0
                /\ ecFis.lba_high_exp = 0
                /\ ecFis.sector_count_exp = 0

\* an LBA48 command of the full 65536 sectors, and one of a few hundred
C2_Witness ==
    /\ InRwCmd
    /\ is_lba48
    /\ curCount = 65536
    /\ ecFis.sector_count = 0
    /\ ecFis.sector_count_exp = 0

\* the S4 call: write(0, buf) with 64 MiB + 512 bytes on an LBA48 device
IsS4Call ==
    /\ is_lba48
    /\ rw_write
    /\ callLba = U64Zero
    /\ callLen = 64 * MiB + 512

\* C3 as stated: the S4 call results in exactly two exec_cmd calls, the
\* first with sector count 0/0 and the second with 1/0.
C3_Original ==
    /\ (IsS4Call /\ Returned) => nCmds = 2
    /\ (IsS4Call /\ InRwCmd /\ nCmds = 2) =>
            (ecFis.sector_count = 1 /\ ecFis.sector_count_exp = 0)

\* C3 amended: the S4 call results in exactly three exec_cmd calls, the
\* first two with sector count 0/0 (65536 sectors each, 64 MiB together) and
\* the third with 1/0.
C3_Amended ==
    /\ (IsS4Call /\ Returned) => nCmds = 3
    /\ (IsS4Call /\ InRwCmd) =>
        /\ nCmds \in 1..3
        /\ nCmds \in {1, 2} =>
            (curCount = 65536 /\ ecFis.sector_count = 0
                /\ ecFis.sector_count_exp = 0)
        /\ nCmds = 3 =>
            (curCount = 1 /\ ecFis.sector_count = 1
                /\ ecFis.sector_count_exp = 0)

C3_Witness == IsS4Call /\ Returned /\ nCmds = 3

\* the S6 call: read(0, buf) with 224 MiB + 1 bytes
IsS6Call ==
    /\ lastRet \in {"pending", "true", "false"}
    /\ ~rw_write
    /\ callLba = U64Zero
    /\ callLen = 224 * MiB + 1

\* C4 as stated: the S6 call issues no command: exec_cmd refuses it and CI
\* is never written during the call.
C4_Original == IsS6Call => ~callCiW

\* C4 amended: the S6 call is not refused.  On an LBA48 device rw_common
\* splits it into 8 commands of at most 32 MiB, exec_cmd's size check
\* passes for each of them, and each command whose slot wait does not time
\* out is issued by a store to CI.
C4_Amended ==
    /\ (IsS6Call /\ is_lba48) =>
        /\ ~refused
        /\ InRwCmd => (ecLen <= 32 * MiB /\ ecLen <= AHCI_MAX_BYTES_PER_CMD)
        /\ pc \in {"ec_done", "ec_completed", "ec_cmd_timeout"} => callCiW
        /\ Returned => nCmds = 8
        /\ (Returned /\ ~callFail) => callCiW

C4_Witness ==
    /\ IsS6Call
    /\ is_lba48
    /\ Returned
    /\ callCiW
    /\ nCmds = 8

(***************************************************************************)
(* C5: against a memory-backed fake controller that completes every        *)
(* command, a read of sectors never written returns their golden contents, *)
(* write(lba, buf) followed by read(lba, buf2) of the same length leaves   *)
(* buf2 equal to buf, and a read that overlaps the written sectors returns *)
(* what was written where it overlaps and golden contents elsewhere.  All  *)
(* four calls return true.                                                 *)
(***************************************************************************)
C5_RoundTrip ==
    (Returned /\ rtPhase > 0) =>
        /\ lastRet = "true"
        /\ rtPhase = 1 =>
            \A j \in 0..(rtN - 1) : RBufAt(j) = Gold(AddU64(rtLba, j))
        /\ rtPhase = 3 => \A j \in 0..(rtN - 1) : RBufAt(j) = WBuf(j)
        /\ rtPhase = 4 =>
            \A j \in 0..(rtN - 1) :
                RBufAt(j) = IF j < rtN - 1 THEN WBuf(j + 1)
                            ELSE Gold(AddU64(rtLba, rtN))

\* a written buffer of more than one command was read back
C5_Witness ==
    /\ Returned
    /\ rtPhase = 3
    /\ nCmds >= 2
    /\ RBufAt(rtN - 1) = WBuf(rtN - 1)
    /\ DiskAt(AddU64(rtLba, rtN - 1)) = WBuf(rtN - 1)


\* C6: read and write return true whatever the device does; after an
\* exec_cmd that timed out (slot busy or completion) or refused, the loop
\* advances start, offset and remaining by the chunk it attempted, and every
\* remaining chunk is attempted before the call returns.
C6_StateInv ==
    /\ lastRet \in {"none", "pending", "true"}
    /\ Returned =>
        /\ lastRet = "true"
        /\ nCmds = CeilDiv(CeilDiv(callLen, 512), SectorCap)
        /\ remaining_bytes = 0
        /\ buf_offset = callLen

C6_Step ==
    (pc = "rw_adv") =>
        /\ pc' \in {"rw_adv", "rw_loop"}
        /\ pc' = "rw_loop" =>
            /\ start' = AddU64(start, curCount)
            /\ buf_offset' = buf_offset + ecLen
            /\ remaining_bytes' = remaining_bytes - ecLen

JustConstructed == result = "Some" /\ pc = "idle" /\ lastRet = "none"

\* the happy path of S1 on port 0: the reset wait succeeded, a read of
\* SSTS.DET of port 0 returned 3 and TFD of port 0 read ready after its start
HappyPath ==
    /\ pc \notin {"start", "reset_wait", "reset_timeout", "dead_reset"}
    /\ sawDet3[0]
    /\ sawReady[0]

\* C7: on the happy path try_new returns Some, and when it returns it has
\* issued exactly one command, on the bound port: IDENTIFY DEVICE (FIS type
\* 0x27, command 0xEC, command bit 0x80), a read of 512 bytes.
C7_HappyPath ==
    /\ HappyPath => result # "None"
    /\ (HappyPath /\ pc \in {"idle", "rw_loop", "rw_adv"}) => result = "Some"
    /\ (HappyPath /\ JustConstructed) =>
        /\ bound \in 0..hwNP
        /\ ciWrites[bound] = 1
        /\ \A p \in Ports : p # bound => (ciWrites[p] = 0 /\ ci[p] = 0)
        /\ lastIssue.port = bound
        /\ lastIssue.hdr.fis_type = 39
        /\ lastIssue.hdr.command = 236
        /\ lastIssue.hdr.pm_port_c = 128
        /\ (lastIssue.opts \div 64) % 2 = 0
        /\ Len(lastIssue.sgs) = 1
        /\ lastIssue.sgs[1].addr_lo = Lo32(V2P(0))
        /\ lastIssue.sgs[1].addr_hi = Hi32(V2P(0))
        /\ lastIssue.sgs[1].flags_size + 1 = 512

C7_Witness ==
    /\ HappyPath
    /\ JustConstructed
    /\ hwNP >= 1
    /\ portRes[hwNP] = "none"

\* C8: if the reset wait times out, try_new returns None; GHC.AE is as the
\* hardware had it, CAP and PI were not written, no register other than GHC
\* was accessed and no port register was read or written.
C8_ResetTimeout ==
    (pc \in {"reset_timeout", "dead_reset"}) =>
        /\ result = (IF pc = "dead_reset" THEN "None" ELSE "pending")
        /\ ghc.AE = hwAE
        /\ ~ghc.IE
        /\ hostAcc \subseteq {"r:GHC", "w:GHC"}
        /\ \A p \in Ports :
            /\ probeAcc[p] = {}
            /\ pcmd[p] = CmdReset
            /\ ciWrites[p] = 0
        /\ tried = <<>>

C8_Witness == pc = "dead_reset" /\ result = "None" /\ ghc.HR

\* every port index in 0..=CAP.NP was probed and failed
AllPortsFailed == \A i \in 0..hwNP : portRes[i] = "none"

\* C9: if bring-up fails for every port index in 0..=CAP.NP, try_new
\* returns None and no command is ever issued: CI is not written on any
\* port and IDENTIFY is not attempted.
C9_NoDevice ==
    AllPortsFailed =>
        /\ pc \in {"port_loop", "probe_done", "dead_nodev"}
        /\ result = (IF pc = "dead_nodev" THEN "None" ELSE "pending")
        /\ bound = NoPort
        /\ ecRet # "identify"
        /\ lastIssue.port = NoPort
        /\ \A p \in Ports : ciWrites[p] = 0 /\ ci[p] = 0

C9_Witness ==
    /\ AllPortsFailed
    /\ pc = "dead_nodev"
    /\ result = "None"
    /\ hwNP >= 1

\* the ports that came up so far
SomePorts == {i \in Ports : portRes[i] = "some"}

MaxOf(S) == CHOOSE m \in S : \A n \in S : n <= m

ProbePcs ==
    {"p_stop", "p_cr_wait", "p_fr_wait", "p_tfd", "p_clo_wait", "p_sud",
     "p_sud_wait", "p_link_wait", "p_clear", "p_ie", "p_gis", "p_det",
     "p_phy_wait", "p_alloc", "p_start", "p_ready_wait", "p_ok", "p_fail"}

\* the probe is over: try_new is past its loop
ProbeOverPcs ==
    {"probe_done", "dead_nodev", "id_done", "idle", "rw_loop", "rw_adv"}
        \cup ExecPcs

ProbeOver == pc \in ProbeOverPcs

C10_StateInv ==
    \* the indices are tried in increasing order, each once
    /\ \A k \in 1..Len(tried) : tried[k] = k - 1
    /\ ProbeOver => Len(tried) = hwNP + 1
    /\ (pc \in ProbePcs \cup {"port_loop"}) => Len(tried) <= hwNP + 1
    \* the port held is the highest-index port that came up
    /\ (pc \in ({"port_loop"} \cup ProbeOverPcs)) =>
            bound = (IF SomePorts = {} THEN NoPort ELSE MaxOf(SomePorts))
    \* commands go to the bound port only
    /\ \A p \in Ports : (ciWrites[p] > 0 \/ ci[p] = 1) => p = bound
    /\ lastIssue.port \in {NoPort, bound}

C10_Step == (ProbeOver /\ bound # NoPort) => bound' = bound

\* C10: try_new probes every index in 0..=CAP.NP in increasing order, the
\* driver is bound to the highest-index port whose bring-up succeeded, and
\* every later command goes to that port only.
C10_LastPortWins == [](C10_StateInv) /\ [][C10_Step]_vars

\* two ports came up, the driver holds the later one and a read or write
\* has issued a command on it
C10_Witness ==
    /\ hwNP >= 1
    /\ portRes[0] = "some"
    /\ portRes[1] = "some"
    /\ bound = 1
    /\ Returned
    /\ callCiW
    /\ lastIssue.port = 1

(***************************************************************************)
(* Properties of exec_cmd.                                                 *)
(***************************************************************************)
\* the exec_cmd call in hand wrote the Command Header
HasHdr == \E i \in 1..Len(trace) : trace[i] = "hdr"

\* the call in hand was made on exec_cmd itself and got as far as that
DirectBuilt == ecRet = "direct" /\ HasHdr

\* PRDTL of slot 0 of the port in use
Prdtl == cmdHdr[bound].opts \div 65536

\* entries a buffer of the call in hand needs
ExpSgCount ==
    IF ecOff = NullBuf \/ ecLen = 0 THEN 0 ELSE CeilDiv(ecLen, 4 * MiB)

\* byte count of the k-th of n entries of a buffer of L bytes
ExpBytes(k, n, L) == IF k < n THEN 4 * MiB ELSE ((L - 1) % (4 * MiB)) + 1

RECURSIVE SumBytes(_, _)
SumBytes(sgs, n) ==
    IF n = 0 THEN 0 ELSE SumBytes(sgs, n - 1) + (sgs[n].flags_size % 4194304) + 1

\* C11: for a buffer of 0 < L <= 224 MiB exec_cmd writes ceil(L / 4 MiB) PRD
\* entries, at most 56; entry k holds the physical address of buf + k * 4 MiB;
\* all but the last count 4 MiB, the last ((L-1) mod 4 MiB) + 1, and the
\* counts add up to L.  For an empty or null buffer it writes no entry and
\* PRDTL is 0.
C11_StateInv ==
    DirectBuilt =>
        LET n == ExpSgCount
            sgs == cmdTbl[bound].sgs
        IN  /\ Prdtl = n
            /\ n <= 56
            /\ Len(sgs) >= n
            /\ \A k \in 1..n :
                /\ sgs[k].addr_lo = Lo32(V2P(ecOff + ((k - 1) * 4 * MiB)))
                /\ sgs[k].addr_hi = Hi32(V2P(ecOff + ((k - 1) * 4 * MiB)))
                /\ (sgs[k].flags_size % 4194304) + 1 = ExpBytes(k, n, ecLen)
            /\ n > 0 => SumBytes(sgs, n) = ecLen

C11_Step ==
    (pc = "ec_size" /\ pc' = "ec_flush" /\ (ecOff = NullBuf \/ ecLen = 0)) =>
        /\ cmdTbl'[bound].sgs = cmdTbl[bound].sgs
        /\ cmdHdr'[bound].opts \div 65536 = 0

C11_Prdt == [](C11_StateInv) /\ [][C11_Step]_vars

\* a buffer of exactly 224 MiB, not at the start of the caller's memory, went
\* out with 56 entries
C11_Witness ==
    /\ DirectBuilt
    /\ pc = "idle"
    /\ ecOutcome = "done"
    /\ ecOff = 1536
    /\ ecLen = 224 * MiB
    /\ Prdtl = 56
    /\ physBase # U64Zero

\* C12: every PRD entry exec_cmd wrote has byte count - 1 in bits 0..21 of
\* flags_size and zero in bits 22..31 (bit 31, interrupt on completion,
\* included), and a zero reserved dword; a full 4 MiB segment is 0x3FFFFF.
C12_FlagsSize ==
    LET sgs == cmdTbl[bound].sgs
    IN  /\ \A k \in 1..Len(sgs) :
            /\ sgs[k].flags_size \in 0..4194303
            /\ sgs[k].reserved = 0
        /\ DirectBuilt =>
            \A k \in 1..ExpSgCount :
                /\ sgs[k].flags_size = ExpBytes(k, ExpSgCount, ecLen) - 1
                /\ ExpBytes(k, ExpSgCount, ecLen) = 4 * MiB =>
                        sgs[k].flags_size = 4194303

\* the S5 buffer: two full segments and one of 2 MiB
C12_Witness ==
    /\ DirectBuilt
    /\ ecLen = 10 * MiB
    /\ Prdtl = 3
    /\ cmdTbl[bound].sgs[1].flags_size = 4194303
    /\ cmdTbl[bound].sgs[2].flags_size = 4194303
    /\ cmdTbl[bound].sgs[3].flags_size = (2 * MiB) - 1

\* the exec_cmd call in hand stored to CI
Issued == \E i \in 1..Len(trace) : trace[i] = "ci"

\* C13: the Command Header of a command exec_cmd issues has opts & 0x1F = 5,
\* bit 6 equal to is_write, opts >> 16 equal to the number of PRD entries
\* written for this command (entries an earlier, larger command left behind
\* are not counted), every other bit of opts 0, status 0, reserved 0, and
\* the physical address of the Command Table in tbl_addr_lo / tbl_addr_hi.
C13_Header ==
    HasHdr =>
        LET h == cmdHdr[bound]
        IN  /\ h.opts % 32 = 5
            /\ (h.opts \div 64) % 2 = (IF ecWrite THEN 1 ELSE 0)
            /\ h.opts \div 65536 = ExpSgCount
            /\ h.opts = 5 + (IF ecWrite THEN 64 ELSE 0) + (65536 * ExpSgCount)
            /\ h.status = 0
            /\ h.reserved = 0
            /\ h.tbl_addr_lo = Lo32(V2P(TblVa(bound)))
            /\ h.tbl_addr_hi = Hi32(V2P(TblVa(bound)))

\* a write smaller than the command before it was issued: the table still
\* holds entries of the earlier command, beyond PRDTL
C13_Witness ==
    /\ Issued
    /\ ecRet = "direct"
    /\ ecWrite
    /\ Prdtl = 1
    /\ Len(cmdTbl[bound].sgs) > 1
    /\ cmdHdr[bound].opts = 65536 + 64 + 5
    /\ cmdHdr[bound].tbl_addr_hi # <<0, 0>>

\* C14: with a buffer of more than 224 MiB exec_cmd returns without writing
\* the Command Table or Command List slot 0, without storing to CI and
\* without flush_dcache; a buffer of exactly 224 MiB is accepted.
C14_StateInv ==
    /\ ecOutcome = "too_large" => (ecLen > 224 * MiB /\ trace = <<>>)
    /\ (ecRet = "direct" /\ pc \notin {"ec_slot", "ec_slot_timeout", "ec_size"}
        /\ ecOutcome \notin {"slot_timeout", "too_large"}
        /\ ecLen <= 224 * MiB) => HasHdr

C14_Step ==
    /\ (pc = "ec_size" /\ pc' # pc) =>
        IF ecLen > 224 * MiB
        THEN /\ pc' = RetPc
             /\ ecOutcome' = "too_large"
             /\ dmaVars' = dmaVars
             /\ ci' = ci
             /\ ciWrites' = ciWrites
             /\ flushes' = flushes
             /\ lastIssue' = lastIssue
             /\ ecHist' = ecHist
        ELSE pc' = "ec_flush"
    /\ ecOutcome' = "too_large" => (ecOutcome = "too_large" \/ pc = "ec_size")

C14_TooLarge == [](C14_StateInv) /\ [][C14_Step]_vars

\* a buffer of 224 MiB + 1 was refused after a command had filled the table
C14_Witness ==
    /\ pc = "idle"
    /\ ecRet = "direct"
    /\ ecOutcome = "too_large"
    /\ ecLen = (224 * MiB) + 1
    /\ nCmds = 2
    /\ Len(cmdTbl[bound].sgs) = 56

\* C15: if CI bit 0 stays set until the slot wait gives up, exec_cmd returns
\* without writing the Command Table or Command List slot 0, without storing
\* to CI and without flush_dcache: the command is dropped.
C15_StateInv ==
    /\ pc = "ec_slot_timeout" => (elapsed < -WaitTimeout /\ trace = <<>>)
    /\ ecOutcome = "slot_timeout" => trace = <<>>

C15_Step ==
    /\ (pc = "ec_slot" /\ pc' = "ec_slot_timeout") => ci[bound] = 1
    /\ pc \in {"ec_slot", "ec_slot_timeout"} =>
        /\ dmaVars' = dmaVars
        /\ ciWrites' = ciWrites
        /\ flushes' = flushes
        /\ lastIssue' = lastIssue
        /\ ecHist' = ecHist
    /\ (pc = "ec_slot_timeout" /\ pc' # pc) =>
        /\ pc' = RetPc
        /\ ecOutcome' = "slot_timeout"
        /\ ci' = ci

C15_SlotBusy == [](C15_StateInv) /\ [][C15_Step]_vars

\* a command was dropped while the one before it is still outstanding
C15_Witness ==
    /\ pc = "idle"
    /\ ecRet = "direct"
    /\ ecOutcome = "slot_timeout"
    /\ ci[bound] = 1
    /\ trace = <<>>
    /\ cmdTbl[bound].hdr # ecFis

\* stores to CI by the exec_cmd call in hand
RECURSIVE CiCount(_)
CiCount(t) ==
    IF t = <<>> THEN 0
    ELSE (IF Head(t) = "ci" THEN 1 ELSE 0) + CiCount(Tail(t))

\* C16: when the controller does not clear CI after a command was issued,
\* the completion wait ends only by its timeout, on a clock reading more than
\* 1000 ms after its start, and exec_cmd then returns: it does return, it
\* stored to CI exactly once in the call, and it does not issue again.
C16_StateInv ==
    /\ CiCount(trace) <= 1
    /\ pc = "ec_cmd_timeout" => (elapsed < -WaitTimeout /\ CiCount(trace) = 1)
    /\ ecOutcome = "cmd_timeout" => CiCount(trace) = 1

C16_Step ==
    /\ (pc = "ec_done" /\ pc' = "ec_cmd_timeout") => ci[bound] = 1
    /\ (pc = "ec_done" /\ pc' = "ec_completed") => ci[bound] = 0
    /\ pc \in {"ec_done", "ec_completed", "ec_cmd_timeout"} =>
        /\ ciWrites' = ciWrites
        /\ ciVals' = ciVals
        /\ ci'[bound] <= ci[bound]
        /\ dmaVars' = dmaVars
    /\ (pc = "ec_cmd_timeout" /\ pc' # pc) =>
        (pc' = RetPc /\ ecOutcome' = "cmd_timeout")

C16_CompletionTimeout ==
    /\ [](C16_StateInv)
    /\ [][C16_Step]_vars
    /\ (pc = "ec_done" ~> pc = "idle")

\* exec_cmd returned from a command the controller has not completed
C16_Witness ==
    /\ pc = "idle"
    /\ ecRet = "direct"
    /\ ecOutcome = "cmd_timeout"
    /\ ci[bound] = 1
    /\ CiCount(trace) = 1

\* the events of a call that issues a command, with and without PRD entries
IssueOrder == <<"fis", "prd", "hdr", "flush", "ci", "poll", "flush">>
IssueOrderNoData == <<"fis", "hdr", "flush", "ci", "poll", "flush">>

IsPrefix(a, b) == Len(a) <= Len(b) /\ a = SubSeq(b, 1, Len(a))

\* C17: in a call of exec_cmd that issues a command the writes to the
\* Command Table FIS, the PRD entries and Command List slot 0 all come first,
\* then flush_dcache, then the store to CI with no write to a DMA structure
\* in between, then the completion poll, then a second flush_dcache after the
\* poll ended (by completion or by timeout) and before the return.
C17_StateInv ==
    /\ IsPrefix(trace, IssueOrder) \/ IsPrefix(trace, IssueOrderNoData)
    /\ (pc = "idle" /\ Issued) =>
        (trace = IssueOrder \/ trace = IssueOrderNoData)
    /\ pc = "ec_issue" => trace[Len(trace)] = "flush"
    /\ pc \in {"ec_completed", "ec_cmd_timeout"} => trace[Len(trace)] = "poll"

C17_Step ==
    /\ dmaVars' # dmaVars => (pc = "ec_size" /\ trace = <<>>)
    /\ flushes' # flushes => trace' = Append(trace, "flush")
    /\ ciWrites' # ciWrites =>
        /\ trace[Len(trace)] = "flush"
        /\ trace' = Append(trace, "ci")
        /\ dmaVars' = dmaVars
    /\ pc \in {"ec_flush", "ec_issue", "ec_done", "ec_completed",
               "ec_cmd_timeout"} => dmaVars' = dmaVars
    /\ (pc \in {"ec_completed", "ec_cmd_timeout"} /\ pc' = RetPc) =>
        trace' = Append(trace, "flush")

C17_IssueOrder == [](C17_StateInv) /\ [][C17_Step]_vars

\* a data command returned after its completion poll timed out
C17_Witness ==
    /\ pc = "idle"
    /\ ecRet = "direct"
    /\ ecOutcome = "cmd_timeout"
    /\ trace = IssueOrder

\* slots of a Command List
CmdSlots == 0..31

\* C18: whatever try_new, read and write calls were made, the only value the
\* driver has stored to a CI register is 1 (bit 0) and the only entry of a
\* Command List it has written is slot 0: slots 1..31 are never written and
\* keep the zeroes of their allocation.
C18_SlotZeroOnly ==
    /\ ciVals \subseteq {1}
    /\ hdrSlots \subseteq {0}
    /\ \A s \in CmdSlots \ {0} : s \notin hdrSlots
    /\ \A p \in Ports : ciWrites[p] > 0 => (ciVals = {1} /\ hdrSlots = {0})

\* a read or write call returned after the driver issued IDENTIFY and a
\* data command on the bound port
C18_Witness ==
    /\ Returned
    /\ result = "Some"
    /\ ciWrites[bound] >= 2
    /\ ciVals = {1}
    /\ hdrSlots = {0}

\* the waits of AhciPort::try_new: those whose timeout is followed by
\* return None, and those whose timeout is only warned
FatalWaitPcs == {"p_sud_wait", "p_link_wait", "p_phy_wait", "p_ready_wait"}
WarnWaitPcs == {"p_cr_wait", "p_fr_wait", "p_clo_wait"}

\* try_new of the port in hand returns None and the loop of
\* AhciDriver::try_new goes on to the next index, the constructor undecided
SkipsPort ==
    /\ (pc = "p_fail" /\ pc' # pc) =>
        /\ pc' = "port_loop"
        /\ portRes' = [portRes EXCEPT ![idx] = "none"]
        /\ idx' = idx + 1
        /\ bound' = bound
        /\ result' = "pending"
    /\ (pc = "port_loop" /\ pc' # pc /\ idx <= hwNP) =>
        (pc' = "p_stop" /\ result' = "pending")
    /\ pc \in {"p_fail", "port_loop"} => result' = result

\* C19 as stated: a timeout of any of the seven waits of port bring-up makes
\* AhciPort::try_new return None, and the probe goes on with the next port.
C19_Original ==
    [][/\ (pc \in (FatalWaitPcs \cup WarnWaitPcs) /\ GaveUp) => pc' = "p_fail"
       /\ SkipsPort]_vars

\* C19: during port bring-up a timeout of the SUD read-back wait, the link
\* wait, the PHY-ready wait or the TFD-ready wait makes AhciPort::try_new
\* return None for that port, and the probe goes on with the next port index
\* instead of failing; a timeout of the CR-clear, FR-clear or CLO wait is
\* only warned and bring-up goes on with its next step.
C19_StateInv ==
    /\ pc = "p_fail" => (elapsed < -WaitTimeout /\ result = "pending")
    /\ warned \subseteq {"CR", "FR", "CLO"}
    /\ \A i \in Ports : portRes[i] = "none" => i < idx

C19_Step ==
    /\ (pc \in FatalWaitPcs /\ GaveUp) => pc' = "p_fail"
    /\ (pc = "p_cr_wait" /\ GaveUp) => (pc' = "p_fr_wait" /\ "CR" \in warned')
    /\ (pc = "p_fr_wait" /\ GaveUp) => (pc' = "p_tfd" /\ "FR" \in warned')
    /\ (pc = "p_clo_wait" /\ GaveUp) => (pc' = "p_sud" /\ "CLO" \in warned')
    /\ pc' = "p_fail" => (pc \in FatalWaitPcs \cup {"p_fail"})
    /\ SkipsPort

C19_Amended == [](C19_StateInv) /\ [][C19_Step]_vars

\* port 0 was skipped after a timeout and the probe is bringing up port 1,
\* where a CLO timeout has been warned and the port has come up all the same
C19_Witness ==
    /\ portRes[0] = "none"
    /\ idx = 1
    /\ pc = "p_ok"
    /\ "CLO" \in warned
    /\ result = "pending"

\* C20: in the stop step of port bring-up a timeout of the 500 ms wait for
\* CMD.CR to clear, or of the 500 ms wait for CMD.FR to clear, does not abort
\* bring-up: the port goes on to the busy check and the spin-up step and can
\* still be returned as a working port.
C20_StateInv ==
    /\ pc \in {"p_cr_wait", "p_fr_wait", "p_tfd"} => portRes[idx] = "untried"
    /\ (pc \in {"p_tfd", "p_clo_wait", "p_sud", "p_sud_wait"}
            /\ warned \cap {"CR", "FR"} # {}) => portRes[idx] = "untried"

C20_Step ==
    /\ (pc = "p_cr_wait" /\ GaveUp) =>
        /\ elapsed' < -StopTimeout
        /\ pc' = "p_fr_wait"
        /\ warned' = warned \cup {"CR"}
    /\ (pc = "p_fr_wait" /\ GaveUp) =>
        /\ elapsed' < -StopTimeout
        /\ pc' = "p_tfd"
        /\ warned' = warned \cup {"FR"}
    /\ pc \in {"p_cr_wait", "p_fr_wait"} =>
        (pc' # "p_fail" /\ portRes' = portRes /\ idx' = idx)
    /\ pc = "p_tfd" => pc' \in {"p_tfd", "p_clo_wait", "p_sud"}
    /\ (pc = "p_ok" /\ pc' # pc) =>
        (portRes' = [portRes EXCEPT ![idx] = "some"] /\ bound' = idx)

C20_StopNonFatal == [](C20_StateInv) /\ [][C20_Step]_vars

\* bring-up of a port reached Some(Self { .. }) after both stop waits
\* timed out
C20_Witness ==
    /\ pc = "p_ok"
    /\ {"CR", "FR"} \subseteq warned
    /\ portRes[idx] = "untried"

(***************************************************************************)
(* Properties of the order of register accesses.                           *)
(***************************************************************************)
\* C21: in port bring-up the error-clearing step is complete before
\* interrupts are enabled: wherever the IE register of a port has been
\* written, SERR and IS of the port have been written back and the bit of
\* the port in the global IS register has been cleared.
C21_ClearBeforeEnable ==
    \A i \in Ports :
        "w:IE" \in probeAcc[i] =>
            {"w:SERR", "w:IS", "w:HOST_IS"} \subseteq probeAcc[i]

\* C22: on every port CMD.ST is set to 1 only by the start store
\* CMD := {ICC=Active, FRE=1, POD=1, SUD=1, ST=1}, every other writable bit
\* (CLO among them) 0; the store is made only after a read of SSTS.DET of
\* that port returned 3 and after CLB/CLBU and FB/FBU were programmed with
\* the physical addresses of the newly allocated, zeroed Command List and
\* Received-FIS area; nothing, and so no busy check of TFD, lies between
\* programming the bases and the start store.
C22_StateInv ==
    \A p \in Ports :
        /\ pcmd[p].ST =>
            /\ pcmd[p] = CmdStart
            /\ sawDet3[p]
            /\ pbase[p] = PortBases(p)
            /\ {"w:CLB", "w:CLBU", "w:FB", "w:FBU"} \subseteq probeAcc[p]
        /\ pbase[p] \in {NoBases, PortBases(p)}
        /\ \A q \in Ports : (q # p /\ pbase[p] # NoBases) => pbase[q] # pbase[p]

C22_Step ==
    /\ \A p \in Ports :
        (~pcmd[p].ST /\ pcmd'[p].ST) =>
            /\ pc = "p_start"
            /\ p = idx
            /\ pcmd'[p] = CmdStart
            /\ sawDet3[p]
            /\ pbase[p] = PortBases(p)
            /\ cmdHdr[p] = EmptyHdr
            /\ cmdTbl[p] = EmptyTbl
    /\ (pc = "p_alloc" /\ pc' # pc) =>
        (pc' = "p_start" /\ pbase'[idx] = PortBases(idx))
    /\ (pc = "p_start" /\ pc' # pc) =>
        (pc' = "p_ready_wait" /\ pcmd'[idx] = CmdStart /\ probeAcc'[idx] = probeAcc[idx] \cup {"w:CMD"})
    /\ pc' = "p_alloc" => (pc = "p_alloc" \/ sawDet3'[idx])

C22_StartStore == [](C22_StateInv) /\ [][C22_Step]_vars

\* a port has just been started, its bases above 4 GiB, after CLO had been
\* set on it during the busy check
C22_Witness ==
    /\ pc = "p_ready_wait"
    /\ pcmd[idx] = CmdStart
    /\ sawDet3[idx]
    /\ pbase[idx].CLBU # <<0, 0>>
    /\ pbase[idx].FB # pbase[idx].CLB
    /\ "CLO" \in warned

\* C23: AhciPort::try_new returns a port only if, after the start store, a
\* read of TFD in the ready wait showed STS_BSY, STS_DRQ and STS_ERR all
\* clear, and returns None if the wait ends without such a read; so the
\* driver never issues a command on a port that was not seen idle and free
\* of error after its start.
C23_StateInv ==
    /\ \A p \in Ports :
        /\ portRes[p] = "some" => (sawReady[p] /\ pcmd[p].ST)
        /\ sawReady[p] => pcmd[p].ST
        /\ ciWrites[p] > 0 => (sawReady[p] /\ portRes[p] = "some")
        /\ ci[p] = 1 => sawReady[p]
    /\ bound # NoPort => sawReady[bound]
    /\ pc = "p_ok" => sawReady[idx]

C23_Step ==
    /\ (pc = "p_ready_wait" /\ pc' = "p_ok") => (~sawReady[idx] /\ sawReady'[idx])
    /\ (pc = "p_ready_wait" /\ GaveUp) =>
        /\ pc' = "p_fail"
        /\ elapsed' < -WaitTimeout
        /\ ~sawReady'[idx]
    /\ (pc = "p_ready_wait" /\ pc' # pc) => pc' \in {"p_ok", "p_fail"}
    /\ (pc = "p_fail" /\ pc' # pc) => portRes'[idx] = "none"
    /\ pc' = "p_ok" => pc \in {"p_ok", "p_ready_wait"}

C23_ReadyOrNone == [](C23_StateInv) /\ [][C23_Step]_vars

\* the ready wait of port 0 timed out after its start; port 1 was seen
\* ready, is the bound port and has had a command issued
C23_Witness ==
    /\ portRes[0] = "none"
    /\ pcmd[0].ST
    /\ ~sawReady[0]
    /\ bound = 1
    /\ sawReady[1]
    /\ ciWrites[1] > 0

\* accesses to GHC, and the positions of AhciDriver::try_new up to its store
\* of GHC.AE
GhcAcc == {"r:GHC", "w:GHC"}
BeforeAePcs == {"start", "reset_wait", "reset_timeout", "dead_reset", "enable"}

\* C24: AhciDriver::try_new sets GHC.AE before it accesses any register
\* other than GHC: the seed writes of CAP and PI, the reads of VS, CAP, CAP2
\* and PI and every access to a port register come after the reset was seen
\* complete (HR = 0) and after the store of AE; GHC.IE is set before the
\* first port is probed.
C24_StateInv ==
    /\ pc \in BeforeAePcs =>
        (hostAcc \subseteq GhcAcc /\ \A p \in Ports : probeAcc[p] = {})
    /\ ~(hostAcc \subseteq GhcAcc) => (ghc.AE /\ ~ghc.HR)
    /\ \A p \in Ports : probeAcc[p] # {} => (ghc.AE /\ ~ghc.HR /\ ghc.IE)
    /\ tried # <<>> => (ghc.IE /\ {"w:CAP", "w:PI", "r:PI"} \subseteq hostAcc)

C24_Step ==
    /\ (pc = "enable" /\ pc' # pc) => (~ghc.HR /\ ghc'.AE)
    /\ ~((hostAcc' \ hostAcc) \subseteq GhcAcc) =>
        (ghc.AE /\ ~ghc.HR /\ pc \notin BeforeAePcs)
    /\ (\E p \in Ports : probeAcc'[p] # probeAcc[p]) =>
        (ghc.AE /\ ~ghc.HR /\ ghc.IE /\ pc \notin BeforeAePcs)
    /\ Len(tried') > Len(tried) => ghc.IE

C24_EnableFirst == [](C24_StateInv) /\ [][C24_Step]_vars

\* on a controller that came out of reset with AE = 0 the first port is
\* being probed
C24_Witness ==
    /\ ~hwAE
    /\ pc = "p_cr_wait"
    /\ idx = 0
    /\ probeAcc[0] # {}
    /\ ghc = [HR |-> FALSE, AE |-> TRUE, IE |-> TRUE]
    /\ {"w:CAP", "w:PI", "r:VS", "r:CAP", "r:CAP2", "r:PI"} \subseteq hostAcc

(***************************************************************************)
(* Termination.                                                            *)
(***************************************************************************)
\* positions where no call of the driver is in progress
RestPcs == {"idle", "dead_reset", "dead_nodev"}

\* C25: every wait of the driver is bounded: with a clock that keeps
\* advancing, AhciDriver::try_new, exec_cmd, read and write each come to
\* their end whatever the controller and the device do, registers that never
\* change included; no wait goes on beyond a clock reading past its timeout
\* (the unbounded wait_until is on no path).
C25_StateInv ==
    /\ elapsed <= WaitTimeout
    /\ elapsed >= -(WaitTimeout + 1)
    /\ pc \in {"p_cr_wait", "p_fr_wait"} => elapsed <= StopTimeout
    /\ pc = "ae_delay" => elapsed <= AeDelay

C25_Terminates ==
    /\ [](C25_StateInv)
    /\ <>(result # "pending")
    /\ (pc \notin RestPcs) ~> (pc \in RestPcs)
    /\ (pc \in ExecPcs) ~> (pc \notin ExecPcs)

\* a write call came to its end on a port whose commands the device never
\* completes
C25_Witness ==
    /\ Returned
    /\ result = "Some"
    /\ ci[bound] = 1
    /\ callFail
    /\ ecOutcome \in {"cmd_timeout", "slot_timeout"}

(***************************************************************************)
(* Properties of wait_until_timeout.                                       *)
(***************************************************************************)
\* C26: wait_until_timeout(cond, timeout) returns true if and only if an
\* evaluation of cond returned true; it evaluates cond at least once before
\* it looks at the clock, so a condition that holds already succeeds even
\* when the timeout has elapsed; it returns false only after a clock reading
\* at which the time since the start is strictly greater than timeout, so a
\* condition that becomes true at exactly timeout ms is still accepted.
C26_StateInv ==
    /\ (wt.pc = "ret") <=> (wt.ret # "none")
    /\ wt.ret = "true" => (wt.seen /\ wt.evals >= 1)
    /\ wt.ret = "false" =>
        (~wt.seen /\ wt.evals >= 1 /\ wt.read > wt.timeout)
    /\ wt.read # -1 => wt.evals >= 1
    /\ wt.pc = "clock" => (wt.evals >= 1 /\ ~wt.seen)

C26_Step ==
    /\ (wt.pc = "eval" /\ wt'.pc = "ret") =>
        (wt'.seen /\ wt'.ret = "true" /\ wt'.read = wt.read)
    /\ (wt.pc = "eval" /\ wt'.pc = "clock") => (~wt'.seen /\ wt'.ret = "none")
    /\ (wt.pc = "clock" /\ wt'.pc = "ret") =>
        (wt.now - wt.start > wt.timeout /\ wt'.ret = "false")
    /\ (wt.pc = "clock" /\ wt'.pc # wt.pc /\ wt.now - wt.start <= wt.timeout) =>
        wt'.pc = "eval"
    /\ wt.pc = "call" => wt'.pc \in {"call", "eval"}

C26_WaitResult == [](C26_StateInv) /\ [][C26_Step]_vars

\* the clock was read at exactly timeout ms, the wait went round, and the
\* condition evaluated next, still at exactly timeout ms, was true
C26_Witness ==
    /\ wt.ret = "true"
    /\ wt.timeout > 0
    /\ wt.read = wt.timeout
    /\ wt.now - wt.start = wt.timeout
    /\ wt.evals = 2

(***************************************************************************)
(* Properties of the ports the driver touches.                             *)
(***************************************************************************)
\* C27: the driver does not read or write registers within unavailable
\* ports: every port whose register block has been accessed has its bit set
\* in PI as the driver read it back.
C27_OnlyImplementedPorts ==
    \A p \in Ports :
        (probeAcc[p] # {} \/ ciWrites[p] > 0 \/ p = bound) => p \in hwPI

(***************************************************************************)
(* Properties of the driver and the device sharing slot 0.                 *)
(***************************************************************************)
\* the driver is between looking at CI in the slot wait and storing to CI
BuildPcs == {"ec_size", "ec_flush", "ec_issue"}

\* C28: with a device that only ever clears CI bits, the driver does not
\* write the Command Table (FIS or PRD entries), Command List slot 0 or CI
\* while a command it issued is outstanding: after its store to CI bit 0
\* there is no such write until it has seen CI bit 0 clear, over any
\* sequence of exec_cmd calls, one that follows a completion timeout which
\* left the command pending included.
C28_StateInv ==
    /\ pc \in BuildPcs => ci[bound] = 0
    /\ \A p \in Ports : ci[p] = 1 => (p = bound /\ ciWrites[p] > 0)

C28_Step ==
    /\ \A p \in Ports :
        ci[p] = 1 =>
            /\ cmdTbl'[p] = cmdTbl[p]
            /\ cmdHdr'[p] = cmdHdr[p]
            /\ ciWrites'[p] = ciWrites[p]
            /\ ci'[p] \in {0, 1}
    /\ (bound # NoPort /\ ci[bound] = 1) =>
        (trace' # trace =>
            (trace' = <<>> \/ trace'[Len(trace')] \in {"poll", "flush"}))
    /\ \A p \in Ports :
        (ci[p] = 0 /\ ci'[p] = 1) => (pc = "ec_issue" /\ p = bound)
    /\ (pc = "ec_slot" /\ pc' = "ec_size") => ci[bound] = 0
    /\ pc' \in BuildPcs => pc \in (BuildPcs \cup {"ec_slot"})

C28_NoWriteWhileOutstanding == [](C28_StateInv) /\ [][C28_Step]_vars

\* the first command of a two-command call timed out and was left pending;
\* the device completed it later, the second exec_cmd saw CI clear and is
\* about to store to CI
C28_Witness ==
    /\ ecRet = "rw"
    /\ nCmds = 2
    /\ callFail
    /\ ~refused
    /\ pc = "ec_issue"
    /\ ci[bound] = 0

(***************************************************************************)
(* Properties of IDENTIFY in AhciDriver::try_new.                          *)
(***************************************************************************)
\* the IDENTIFY command of try_new is in exec_cmd or has just returned
InIdentify == ecRet = "identify" /\ pc \in (ExecPcs \cup {"id_done"})

\* the device has written nothing into the buffer id
IdZeroed == id83 = 0 /\ idSect = ZeroSectors

\* C29: the outcome of IDENTIFY does not decide whether AhciDriver::try_new
\* succeeds: once a port was brought up try_new returns Some, also when
\* IDENTIFY times out or is never completed, and then the identity is
\* decoded from the buffer of 256 words that is still zero: capacity() = 0,
\* LBA28 mode, block_size() = 512.
C29_StateInv ==
    /\ InIdentify => (bound # NoPort /\ result = "pending")
    /\ pc = "dead_nodev" => bound = NoPort
    /\ (JustConstructed /\ IdZeroed) => (max_lba = U64Zero /\ ~is_lba48)
    /\ BlockSize = 512

C29_Step ==
    /\ (pc = "probe_done" /\ bound # NoPort /\ pc' # pc) =>
        (pc' = "ec_slot" /\ ecRet' = "identify" /\ id83' = 0 /\ idSect' = ZeroSectors)
    /\ (InIdentify /\ pc' # pc) => (InIdentify' \/ (pc' = "idle" /\ result' = "Some"))
    /\ (pc = "id_done" /\ pc' # pc) =>
        /\ pc' = "idle"
        /\ result' = "Some"
        /\ ecOutcome \in {"done", "cmd_timeout"}
        /\ IdZeroed => (max_lba' = U64Zero /\ ~is_lba48')
        /\ max_lba' = ata_id_n_sectors(id83, idSect)

C29_IdentifyIgnored == [](C29_StateInv) /\ [][C29_Step]_vars

\* try_new returned Some although IDENTIFY timed out and is still pending
C29_Witness ==
    /\ JustConstructed
    /\ ecOutcome = "cmd_timeout"
    /\ ci[bound] = 1
    /\ IdZeroed
    /\ max_lba = U64Zero
    /\ ~is_lba48

(***************************************************************************)
(* Properties of ports that were started and are not the bound one.        *)
(***************************************************************************)
\* AhciPort::try_new of port p has returned after its start store
StartedAndLeft(p) == portRes[p] # "untried" /\ "w:CLB" \in probeAcc[p]

\* C30: the driver never clears CMD.ST or CMD.FRE of a port after the start
\* store of that port: a port that was started and is not the bound one (a
\* port of lower index that came up and was replaced by a later one, or a
\* port whose ready wait timed out) still has ST = 1 and FRE = 1, and CLB and
\* FB still hold the addresses of its buffers, when try_new returns.
C30_StateInv ==
    \A p \in Ports :
        /\ StartedAndLeft(p) =>
            /\ pcmd[p].ST
            /\ pcmd[p].FRE
            /\ pbase[p] = PortBases(p)
        /\ (result # "pending" /\ portRes[p] = "some") => pcmd[p] = CmdStart

C30_Step ==
    \A p \in Ports :
        pcmd[p].ST =>
            /\ pcmd'[p].ST
            /\ pcmd'[p].FRE
            /\ pbase'[p] = pbase[p]

C30_NeverStopped == [](C30_StateInv) /\ [][C30_Step]_vars

\* try_new returned with port 1 bound; port 0 had come up before it and
\* was replaced, and is still running
C30_Witness ==
    /\ result = "Some"
    /\ bound = 1
    /\ portRes[0] = "some"
    /\ pcmd[0].ST
    /\ pcmd[0].FRE
    /\ pbase[0] = PortBases(0)
    /\ pbase[0] # pbase[1]

\* sectors a command FIS of read/write asks for: a count of 0 stands for 256
\* in LBA28 and for 65536 in LBA48
EncodedSectors(h) ==
    IF is_lba48
    THEN LET c == h.sector_count + (256 * h.sector_count_exp)
         IN  IF c = 0 THEN 65536 ELSE c
    ELSE IF h.sector_count = 0 THEN 256 ELSE h.sector_count

\* bytes the PRD entries of the command in slot 0 describe
PrdtBytes == SumBytes(cmdTbl[bound].sgs, Prdtl)

\* the command in hand is the last one of its call
FinalCmd == ecLen = remaining_bytes

\* C31: for every command read/write issues on a buffer whose length is a
\* multiple of 512, the PRD entries describe 512 times the sectors the FIS
\* asks for (0 standing for 256 in LBA28, 0/0 for 65536 in LBA48).  A buffer
\* whose length is not a multiple of 512 is not turned down: the call runs
\* its commands and returns true, and its last command asks for
\* ceil(remaining / 512) sectors while its PRD entries describe the
\* remaining bytes only.
C31_SectorsAndBytes ==
    /\ (InRwCmd /\ Issued) =>
        LET h == cmdTbl[bound].hdr
        IN  /\ (callLen % 512 = 0) => PrdtBytes = 512 * EncodedSectors(h)
            /\ (callLen % 512 # 0 /\ FinalCmd) =>
                /\ EncodedSectors(h) = CeilDiv(remaining_bytes, 512)
                /\ PrdtBytes = remaining_bytes
                /\ PrdtBytes < 512 * EncodedSectors(h)
    /\ (Returned /\ callLen % 512 # 0) =>
        /\ lastRet = "true"
        /\ nCmds >= 1

\* the last command of a buffer of 224 MiB + 1 bytes: one sector asked for,
\* one byte described
C31_Witness ==
    /\ InRwCmd
    /\ Issued
    /\ callLen % 512 # 0
    /\ FinalCmd
    /\ nCmds >= 2
    /\ EncodedSectors(cmdTbl[bound].hdr) = 1
    /\ PrdtBytes = 1

====
